---- MODULE Spec2Model ----
(***************************************************************************)
(* Agent orchestration of chili-copilot: the plan scheduler                *)
(* (ExecutorAgent), the workflow state machine (WorkflowStateMachine) and  *)
(* the streaming router (ReasoningStreamProcessor).                        *)
(***************************************************************************)
EXTENDS Integers, Sequences, FiniteSets, TLC

\* ------------------------------------------------------------------------
\* Bounds of the explored inputs
\* ------------------------------------------------------------------------
MaxSteps == 3
MaxEdges == 3
MaxCalls == 5
MaxListeners == 2
MaxChunks == 3
MaxToolCalls == 2
MaxInputFields == 2
MaxBatch == 2
MaxTopK == 2
MaxHistory == 2
MaxRanked == 2

VARIABLES
    steps,          \* plan.steps: the PlanStep array, statuses mutated in place
    sortedSteps,    \* executePlan's local sortedSteps, as positions in steps
    results,        \* executePlan's local results: StepResult[]
    pc,             \* where executePlan stands
    pos,            \* position of the for-loop in sortedSteps
    aborted,        \* signal.aborted
    chatLog,        \* history: every provider.chat call, in call order
    lastTool,       \* history: the step whose attempt made the latest toolExecutor.execute call
    retryLog        \* history: what each retryStep call returned

execVars == <<steps, sortedSteps, results, pc, pos, aborted, chatLog, lastTool, retryLog>>

VARIABLES
    wfState,        \* WorkflowStateMachine._state (id: the identity of the object)
    listeners,      \* WorkflowStateMachine._listeners, in registration order
    delivered,      \* history: the listener invocations of the latest call, in order
    wfError,        \* the Error thrown by the latest call, NoError when it returned
    lastOp,         \* history: the latest call, the phase it found, whether it returned
    wfCalls,        \* number of calls made on the machine so far
    lastArgs,       \* history: what the latest setError, answerQuestion or handle call was given
    invoked         \* history: each listener function was invoked never (0), once (1) or more often (2)

wfVars == <<wfState, listeners, delivered, wfError, lastOp, wfCalls, lastArgs, invoked>>

VARIABLES
    entries,        \* trace.entries
    currentThinking,\* processStream's local: position of the thinking entry, 0 when undefined
    currentMessage, \* processStream's local: position of the message entry, 0 when undefined
    toolEntry,      \* processStream's local: position of the tool_call entry awaited, 0 when none
    spc,            \* where processStream stands
    chunk,          \* the chunk the for-await loop is processing
    callsLeft,      \* the tool calls of that chunk not yet reached by the inner loop
    fed,            \* history: the tool calls seen in the feed, in feed order
    dispatched,     \* history: the tool calls passed to toolExecutor.execute, in call order
    chunksSeen,     \* number of chunks the stream has yielded
    lastFault       \* history: the entry settled last and the fault its invocation met

streamVars == <<entries, currentThinking, currentMessage, toolEntry, spc, chunk, callsLeft,
                fed, dispatched, chunksSeen, lastFault>>

VARIABLES
    givenInput,     \* the input a direct call of validateToolInput is given
    givenSchema,    \* the schema that call is given
    validation      \* what that call returned or threw, NotCalled before it

valVars == <<givenInput, givenSchema, validation>>

VARIABLES
    handlers,       \* ToolExecutor.handlers: the Map from tool name to ToolHandler
    toolCall,       \* the ToolCall given to execute
    toolOutcome,    \* what the latest execute call resolved to or rejected with
    executorRuns,   \* history: the handler.execute invocations of the latest execute call
    toolOp          \* history: the latest call made on the ToolExecutor

toolVars == <<handlers, toolCall, toolOutcome, executorRuns, toolOp>>

VARIABLES
    documents,      \* InMemoryVectorStore._documents: the Map's documents, in insertion order
    dimensions,     \* InMemoryVectorStore.dimensions
    storeOp,        \* history: the latest call made on the store and the Error it threw
    searchResults,  \* history: what the latest search returned
    lastGiven       \* history: per id, the document the latest upsert stored, until removed or cleared

storeVars == <<documents, dimensions, storeOp, searchResults, lastGiven>>

VARIABLES
    ctxCall,        \* the arguments buildContext was called with
    vectorCount,    \* this.vectorStore.count
    cpc,            \* where buildContext stands
    messages,       \* buildContext's local messages; what it returns in the end
    usedTokens,     \* buildContext's local usedTokens
    ragContext,     \* buildContext's local ragContext
    ragFeed         \* history: how embedText and search settled, and the contents search ranked

ctxVars == <<ctxCall, vectorCount, cpc, messages, usedTokens, ragContext, ragFeed>>

VARIABLES
    chunkCall,      \* the arguments chunkText was called with: text and options
    chunkPc,        \* where chunkText stands
    parasLeft,      \* the paragraphs the outer for loop has not reached yet
    currentText,    \* chunkText's local current
    sentencesLeft,  \* the sentences the sentence loop has not finished, the one being cut first
    sentenceChunk,  \* chunkText's local sentenceChunk
    sliceAt,        \* the i of the character loop
    chunkList       \* chunkText's local chunks; what it returns in the end

chunkVars == <<chunkCall, chunkPc, parasLeft, currentText, sentencesLeft, sentenceChunk,
               sliceAt, chunkList>>

vars == <<execVars, wfVars, streamVars, valVars, toolVars, storeVars, ctxVars, chunkVars>>

\* ------------------------------------------------------------------------
\* Plans given to executePlan
\* ------------------------------------------------------------------------
Undefined == "undefined"

\* No step index: the value of lastTool before any tool call.
NoStep == 0 - 1

StepIndices == 0 .. (MaxSteps - 1)

\* The ascending enumeration of a set of numbers.
RECURSIVE Ascending(_)
Ascending(S) ==
    IF S = {} THEN <<>>
    ELSE LET m == CHOOSE x \in S : \A y \in S : x <= y
         IN <<m>> \o Ascending(S \ {m})

Reverse(s) == [i \in 1 .. Len(s) |-> s[Len(s) + 1 - i]]

\* The edge sets (step, dependency) a plan of n steps may carry.
EdgeSets(n) ==
    {E \in SUBSET {<<a, b>> \in (0 .. (n - 1)) \X StepIndices : a # b} :
        Cardinality(E) <= MaxEdges}

PlanStep(i, E) ==
    [index |-> i,
     dependsOn |-> Ascending({e[2] : e \in {d \in E : d[1] = i}}),
     status |-> "pending"]

\* Plans with unique indices 0..n-1, in ascending or descending array order.
Plans ==
    UNION {
        UNION {
            {[k \in 1 .. n |-> PlanStep(ord[k], E)] : E \in EdgeSets(n)}
            : ord \in {Ascending(0 .. (n - 1)), Reverse(Ascending(0 .. (n - 1)))}}
        : n \in 1 .. MaxSteps}

\* ------------------------------------------------------------------------
\* ExecutorAgent.topologicalSort (Kahn's algorithm over Maps and a queue)
\* ------------------------------------------------------------------------

\* new Map(steps.map(s => [s.index, s])): has / get (the last entry of an
\* index wins); a step is referred to by its position in the array.
stepMapHas(st, idx) == \E p \in DOMAIN st : st[p].index = idx

stepMapGet(st, idx) ==
    CHOOSE p \in DOMAIN st :
        st[p].index = idx /\ \A q \in DOMAIN st : st[q].index = idx => q <= p

\* The keys of the inDegree Map in insertion order.
RECURSIVE inDegreeKeys(_, _)
inDegreeKeys(st, n) ==
    IF n = 0 THEN <<>>
    ELSE LET before == inDegreeKeys(st, n - 1)
         IN IF \E j \in DOMAIN before : before[j] = st[n].index
            THEN before
            ELSE Append(before, st[n].index)

\* inDegree after the first loop: index -> dependsOn.length.
initialInDegree(st) ==
    [k \in {st[p].index : p \in DOMAIN st} |-> Len(st[stepMapGet(st, k)].dependsOn)]

\* One copy of idx for every occurrence of dep in a dependsOn list.
RECURSIVE pushedFor(_, _, _)
pushedFor(dependsOn, dep, idx) ==
    IF dependsOn = <<>> THEN <<>>
    ELSE (IF Head(dependsOn) = dep THEN <<idx>> ELSE <<>>)
         \o pushedFor(Tail(dependsOn), dep, idx)

\* adjacency.get(dep) ?? [] after the first loop: the dependents of dep, in
\* array order.
RECURSIVE adjacencyUpTo(_, _, _)
adjacencyUpTo(st, dep, n) ==
    IF n = 0 THEN <<>>
    ELSE adjacencyUpTo(st, dep, n - 1) \o pushedFor(st[n].dependsOn, dep, st[n].index)

adjacency(st, dep) == adjacencyUpTo(st, dep, Len(st))

\* A queue that starts with every key, whatever its degree.
everyKey(keys, inDeg) == keys

\* The queue before the while loop: the keys of inDegree with degree 0.
RECURSIVE zeroDegree(_, _)
zeroDegree(keys, inDeg) ==
    IF keys = <<>> THEN <<>>
    ELSE (IF inDeg[Head(keys)] = 0 THEN <<Head(keys)>> ELSE <<>>)
         \o zeroDegree(Tail(keys), inDeg)

\* The inner for loop over the neighbours of the dequeued step.
RECURSIVE relaxNeighbors(_, _, _)
relaxNeighbors(nbrs, inDeg, queue) ==
    IF nbrs = <<>> THEN [inDegree |-> inDeg, queue |-> queue]
    ELSE LET neighbor == Head(nbrs)
             deg == (IF neighbor \in DOMAIN inDeg THEN inDeg[neighbor] ELSE 1) - 1
             inDeg1 == [k \in DOMAIN inDeg \cup {neighbor} |->
                           IF k = neighbor THEN deg ELSE inDeg[k]]
         IN relaxNeighbors(Tail(nbrs), inDeg1,
                           IF deg = 0 THEN Append(queue, neighbor) ELSE queue)

\* The while loop: queue.shift(), push the step, relax its neighbours.
RECURSIVE kahnLoop(_, _, _, _)
kahnLoop(st, queue, inDeg, sorted) ==
    IF queue = <<>> THEN sorted
    ELSE LET current == Head(queue)
             sorted1 == IF stepMapHas(st, current)
                        THEN Append(sorted, stepMapGet(st, current))
                        ELSE sorted
             r == relaxNeighbors(adjacency(st, current), inDeg, Tail(queue))
         IN kahnLoop(st, r.queue, r.inDegree, sorted1)

\* A scheduler that forgets the dependencies: the array order as it stands.
arrayOrder(st) == [p \in 1 .. Len(st) |-> p]

\* topologicalSort(steps): the sorted steps, as positions in the array.
topologicalSort(st) ==
    kahnLoop(st, zeroDegree(inDegreeKeys(st, Len(st)), initialInDegree(st)),
             initialInDegree(st), <<>>)

\* ------------------------------------------------------------------------
\* ExecutorAgent.skipDependents
\* ------------------------------------------------------------------------
includes(seq, x) == \E j \in DOMAIN seq : seq[j] = x

\* The for loop of skipDependents from array position p on; the recursive
\* call works on the same array, so its marks are seen by the rest of the loop.
RECURSIVE skipFrom(_, _, _)
skipFrom(failedIndex, st, p) ==
    IF p > Len(st) THEN st
    ELSE IF includes(st[p].dependsOn, failedIndex) /\ st[p].status = "pending"
         THEN skipFrom(failedIndex,
                       skipFrom(st[p].index, [st EXCEPT ![p].status = "skipped"], 1),
                       p + 1)
         ELSE skipFrom(failedIndex, st, p + 1)

\* Marks no step at all.
skipNothing(failedIndex, st) == st

\* Marks only the direct dependents.
skipDirectOnly(failedIndex, st) ==
    [p \in 1 .. Len(st) |->
        IF includes(st[p].dependsOn, failedIndex) /\ st[p].status = "pending"
        THEN [st[p] EXCEPT !.status = "skipped"]
        ELSE st[p]]

skipDependents(failedIndex, st) == skipFrom(failedIndex, st, 1)

\* ------------------------------------------------------------------------
\* One model call of a step: the chunks of provider.chat with the results
\* toolExecutor.execute gives for their tool calls
\* ------------------------------------------------------------------------
ToolOk == [success |-> TRUE, nodeId |-> Undefined, error |-> Undefined]
ToolOkNode == [success |-> TRUE, nodeId |-> "node1", error |-> Undefined]
ToolFail == [success |-> FALSE, nodeId |-> Undefined, error |-> "tool failed"]

\* calls: the tool results in feed order; throws: the stream (or
\* provider.chat) throws once these calls have been consumed.
ChatStreams ==
    {[calls |-> c, throws |-> t] :
        c \in {<<>>, <<ToolOkNode>>, <<ToolOk>>, <<ToolFail>>, <<ToolOkNode, ToolFail>>},
        t \in BOOLEAN}

StreamError == "Error: stream failed"

\* The two for loops of executeStep over the tool calls of the stream: the
\* failure returned at the first unsuccessful tool result, else the nodeIds.
RECURSIVE collectNodeIds(_, _)
collectNodeIds(calls, nodeIds) ==
    IF calls = <<>> THEN [failed |-> FALSE, nodeIds |-> nodeIds, error |-> Undefined]
    ELSE LET toolResult == Head(calls)
         IN IF toolResult.success
            THEN collectNodeIds(Tail(calls),
                                IF toolResult.nodeId # Undefined
                                THEN Append(nodeIds, toolResult.nodeId)
                                ELSE nodeIds)
            ELSE [failed |-> TRUE, nodeIds |-> nodeIds, error |-> toolResult.error]

\* Whether toolExecutor.execute is called at all while the stream is consumed.
invokesTool(stream) == stream.calls # <<>>

\* executeStep(step, plan, previousResults): the StepResult.
executeStep(stepIndex, stream) ==
    LET r == collectNodeIds(stream.calls, <<>>)
    IN IF r.failed
       THEN [stepIndex |-> stepIndex, status |-> "failure", error |-> r.error]
       ELSE IF stream.throws
            THEN [stepIndex |-> stepIndex, status |-> "failure", error |-> StreamError]
            ELSE [stepIndex |-> stepIndex, status |-> "success", nodeIds |-> r.nodeIds]

\* retryStep(step, errorMessage): the StepResult (no nodeIds are gathered).
retryStep(stepIndex, stream) ==
    LET r == collectNodeIds(stream.calls, <<>>)
    IN IF r.failed
       THEN [stepIndex |-> stepIndex, status |-> "failure", error |-> r.error]
       ELSE IF stream.throws
            THEN [stepIndex |-> stepIndex, status |-> "failure", error |-> StreamError]
            ELSE [stepIndex |-> stepIndex, status |-> "success"]

\* ------------------------------------------------------------------------
\* ExecutorAgent.executePlan
\* ------------------------------------------------------------------------

\* A loop that never polls the signal.
ignoresSignal(sig) == FALSE

\* Line 27: the poll of the cancellation signal at the head of an iteration.
stopsBefore(sig) == sig

\* A loop that retries every step.
retriesAlways(result) == TRUE

\* A loop that retries no step.
retriesNever(result) == FALSE

\* Line 36: whether the first result sends the step to retryStep.
needsRetry(result) == result.status = "failure"

\* A status update that leaves the step active.
staysActive(result) == "active"

\* A status update that fails the step whatever its result.
failsAlways(result) == "failed"

\* Line 34: the status a step gets from the result of its first attempt.
statusOf(result) == IF result.status = "success" THEN "done" ELSE "failed"

\* The head of the for loop at position p: leave the loop (exhausted, or the
\* signal is set), or mark the step active and call executeStep, which calls
\* provider.chat before its first await.
LoopHead(st, srt, p) ==
    IF p > Len(srt) \/ stopsBefore(aborted)
    THEN /\ steps' = st
         /\ pc' = "returned"
         /\ chatLog' = chatLog
    ELSE /\ steps' = [st EXCEPT ![srt[p]].status = "active"]
         /\ pc' = "executing"
         /\ chatLog' = Append(chatLog, [stepIndex |-> st[srt[p]].index, call |-> "executeStep"])

\* executePlan(plan, signal) up to its first await.
ExecutePlan ==
    /\ pc = "idle"
    /\ sortedSteps' = topologicalSort(steps)
    /\ results' = <<>>
    /\ pos' = 1
    /\ LoopHead(steps, sortedSteps', 1)
    /\ UNCHANGED <<aborted, lastTool, retryLog>>

\* await executeStep(...) resolves; lines 32-37, then either the next
\* iteration or the call of retryStep.
ExecuteStepReturns ==
    /\ pc = "executing"
    /\ \E stream \in ChatStreams :
         LET p == sortedSteps[pos]
             result == executeStep(steps[p].index, stream)
             st1 == [steps EXCEPT ![p].status = statusOf(result)]
         IN /\ results' = Append(results, result)
            /\ lastTool' = IF invokesTool(stream) THEN steps[p].index ELSE lastTool
            /\ IF needsRetry(result)
               THEN /\ steps' = st1
                    /\ pc' = "retrying"
                    /\ pos' = pos
                    /\ chatLog' = Append(chatLog, [stepIndex |-> steps[p].index, call |-> "retryStep"])
               ELSE /\ pos' = pos + 1
                    /\ LoopHead(st1, sortedSteps, pos + 1)
    /\ UNCHANGED <<sortedSteps, aborted, retryLog>>

\* A retry result pushed after the first result instead of over it.
appendRetry(res, retryResult) == Append(res, retryResult)

\* Line 42: results[results.length - 1] = retryResult.
replaceLast(res, retryResult) == [res EXCEPT ![Len(res)] = retryResult]

\* await retryStep(...) resolves; lines 38-43, then the next iteration.
RetryStepReturns ==
    /\ pc = "retrying"
    /\ \E stream \in ChatStreams :
         LET p == sortedSteps[pos]
             retryResult == retryStep(steps[p].index, stream)
         IN /\ retryLog' = Append(retryLog, retryResult)
            /\ lastTool' = IF invokesTool(stream) THEN steps[p].index ELSE lastTool
            /\ IF retryResult.status = "failure"
               THEN /\ steps' = skipDependents(steps[p].index, steps)
                    /\ pc' = "returned"
                    /\ UNCHANGED <<results, pos, chatLog>>
               ELSE /\ results' = replaceLast(results, retryResult)
                    /\ pos' = pos + 1
                    /\ LoopHead([steps EXCEPT ![p].status = "done"], sortedSteps, pos + 1)
    /\ UNCHANGED <<sortedSteps, aborted>>

\* The caller aborts the AbortController whose signal executePlan was given.
Abort ==
    /\ pc # "returned"
    /\ ~aborted
    /\ aborted' = TRUE
    /\ UNCHANGED <<steps, sortedSteps, results, pc, pos, chatLog, lastTool, retryLog>>

\* ------------------------------------------------------------------------
\* Properties of the plan scheduler
\* ------------------------------------------------------------------------

\* Step at position p lists the index of the step at position q in dependsOn.
DependsDirectly(st, p, q) == includes(st[p].dependsOn, st[q].index)

\* A dependsOn chain of at most n links leads from position p to position q.
RECURSIVE DependsWithin(_, _, _, _)
DependsWithin(st, p, q, n) ==
    /\ n > 0
    /\ \/ DependsDirectly(st, p, q)
       \/ \E r \in DOMAIN st : DependsDirectly(st, p, r) /\ DependsWithin(st, r, q, n - 1)

DependsTransitively(st, p, q) == DependsWithin(st, p, q, Len(st))

UniqueIndices(st) == \A p, q \in DOMAIN st : st[p].index = st[q].index => p = q

DependenciesPresent(st) ==
    \A p \in DOMAIN st : \A j \in DOMAIN st[p].dependsOn : stepMapHas(st, st[p].dependsOn[j])

Acyclic(st) == \A p \in DOMAIN st : ~DependsTransitively(st, p, p)

ValidPlan(st) == UniqueIndices(st) /\ DependenciesPresent(st) /\ Acyclic(st)

\* The rank of array position p in an order of positions (0 when absent).
RankIn(order, p) ==
    IF \E k \in DOMAIN order : order[k] = p
    THEN CHOOSE k \in DOMAIN order : order[k] = p
    ELSE 0

\* The step indices of the calls of a kind in chatLog, in call order.
RECURSIVE CallsOf(_, _)
CallsOf(log, kind) ==
    IF log = <<>> THEN <<>>
    ELSE (IF Head(log).call = kind THEN <<Head(log).stepIndex>> ELSE <<>>)
         \o CallsOf(Tail(log), kind)

Attempted == CallsOf(chatLog, "executeStep")

Retried == CallsOf(chatLog, "retryStep")

CountIn(seq, x) == Cardinality({j \in DOMAIN seq : seq[j] = x})

\* C1: for a plan with unique indices, present dependencies and no cycle,
\* the order computed by topologicalSort holds every step once, each after
\* all the steps of its dependsOn, and the steps executePlan has attempted
\* are a prefix of that order.
C1_DependencyOrder ==
    (pc # "idle" /\ ValidPlan(steps)) =>
        /\ Len(sortedSteps) = Len(steps)
        /\ \A p \in DOMAIN steps : RankIn(sortedSteps, p) > 0
        /\ \A p, q \in DOMAIN steps :
             DependsDirectly(steps, p, q) => RankIn(sortedSteps, q) < RankIn(sortedSteps, p)
        /\ Len(Attempted) <= Len(sortedSteps)
        /\ \A k \in DOMAIN Attempted : Attempted[k] = steps[sortedSteps[k]].index

\* A valid plan of three steps whose array order is not a dependency order
\* has been executed to the end.
C1_Witness ==
    /\ pc = "returned"
    /\ ValidPlan(steps)
    /\ Len(steps) = 3
    /\ Len(results) = 3
    /\ sortedSteps # arrayOrder(steps)
    /\ \E p, q, r \in DOMAIN steps :
         DependsDirectly(steps, p, q) /\ DependsDirectly(steps, q, r)

\* The step at position p failed on its first attempt and on its retry.
FailedAfterRetry(p) ==
    /\ steps[p].status = "failed"
    /\ \E j \in DOMAIN retryLog :
         retryLog[j].stepIndex = steps[p].index /\ retryLog[j].status = "failure"

\* C2: once a step S has failed on both attempts, executePlan has returned
\* with every transitive dependent of S skipped; and a step is done only
\* when every step it transitively depends on is done, so no dependent of a
\* step that ends failed is done at any point of the run.
C2_FailurePropagation ==
    \A s, d \in DOMAIN steps :
        DependsTransitively(steps, d, s) =>
            /\ FailedAfterRetry(s) => (pc = "returned" /\ steps[d].status = "skipped")
            /\ steps[d].status = "done" => steps[s].status = "done"

\* A step with an indirect dependent has failed twice.
C2_Witness ==
    \E s, m, d \in DOMAIN steps :
        /\ s # d /\ m # s /\ m # d
        /\ DependsDirectly(steps, m, s)
        /\ DependsDirectly(steps, d, m)
        /\ ~DependsDirectly(steps, d, s)
        /\ FailedAfterRetry(s)
        /\ pc = "returned"

\* The result pushed by the executeStep call that returns in this transition.
FirstResultNow == results'[Len(results')]

\* C5: no step is run more than twice (one executeStep call, at most one
\* retryStep call); retryStep is called exactly when the executeStep call of
\* the step returns a failure; and when a retry fails the step is failed,
\* executePlan returns and no provider.chat call follows.
C5_RetryOnce ==
    /\ [](\A i \in StepIndices :
            /\ CountIn(Attempted, i) <= 1
            /\ CountIn(Retried, i) <= CountIn(Attempted, i))
    /\ [][(pc = "executing" /\ Len(results') = Len(results) + 1) =>
            LET i == steps[sortedSteps[pos]].index
            IN IF FirstResultNow.status = "failure"
               THEN chatLog' = Append(chatLog, [stepIndex |-> i, call |-> "retryStep"])
               ELSE CountIn(CallsOf(chatLog', "retryStep"), i) = 0]_vars
    /\ [][(pc = "retrying" /\ Len(retryLog') = Len(retryLog) + 1
             /\ retryLog'[Len(retryLog')].status = "failure") =>
            /\ steps'[sortedSteps[pos]].status = "failed"
            /\ pc' = "returned"
            /\ chatLog' = chatLog]_vars
    /\ [][pc = "returned" => chatLog' = chatLog]_vars

\* One step has succeeded at once, one on its retry, one has failed twice.
C5_Witness ==
    /\ pc = "returned"
    /\ Len(Attempted) = 3
    /\ Len(Retried) = 2
    /\ \E p \in DOMAIN steps : FailedAfterRetry(p)

\* C6: the sequence executePlan returns holds one StepResult for each step
\* it attempted, in the order of the attempts, so none for a step that is
\* skipped or was never attempted, and no step index twice.
C6_OneResultPerAttempt ==
    pc = "returned" =>
        /\ [k \in DOMAIN results |-> results[k].stepIndex] = Attempted
        /\ \A j, k \in DOMAIN results : results[j].stepIndex = results[k].stepIndex => j = k
        /\ \A p \in DOMAIN steps :
             steps[p].status \in {"skipped", "pending"} =>
                 \A k \in DOMAIN results : results[k].stepIndex # steps[p].index

\* A run with a retried step, a skipped step and two results.
C6_Witness ==
    /\ pc = "returned"
    /\ Len(results) = 2
    /\ Len(Retried) >= 1
    /\ \E p \in DOMAIN steps : steps[p].status = "skipped"

\* C7 as claimed: the returned StepResult of every retried step is the
\* result of its retry, whether the retry succeeded or failed.
C7_RetryResultReturned ==
    pc = "returned" =>
        \A j \in DOMAIN retryLog :
            \E k \in DOMAIN results :
                /\ results[k].stepIndex = retryLog[j].stepIndex
                /\ results[k] = retryLog[j]

\* C8: when an iteration begins with the cancellation signal set and a step
\* left in the order, executePlan returns the results gathered so far; that
\* step and every later step of the order are pending, without a
\* provider.chat call, a tool call or a StepResult.
C8_CancelBeforeStep ==
    [][(pos' = pos + 1 /\ aborted /\ pos' <= Len(sortedSteps')) =>
          /\ pc' = "returned"
          /\ chatLog' = chatLog
          /\ \A k \in pos' .. Len(sortedSteps') :
               LET i == steps'[sortedSteps'[k]].index
               IN /\ steps'[sortedSteps'[k]].status = "pending"
                  /\ CountIn(CallsOf(chatLog', "executeStep"), i) = 0
                  /\ CountIn(CallsOf(chatLog', "retryStep"), i) = 0
                  /\ lastTool' # i
                  /\ \A j \in DOMAIN results' : results'[j].stepIndex # i]_vars

\* executePlan has returned on the signal after one step, leaving two.
C8_Witness ==
    /\ pc = "returned"
    /\ aborted
    /\ Len(results) = 1
    /\ Len(sortedSteps) = 3
    /\ pos = 2
    /\ steps[sortedSteps[1]].status = "done"
    /\ steps[sortedSteps[2]].status = "pending"
    /\ steps[sortedSteps[3]].status = "pending"

\* ------------------------------------------------------------------------
\* WorkflowStateMachine
\* ------------------------------------------------------------------------
NoError == [expected |-> "", got |-> ""]

NoOp == [name |-> "", from |-> "", accepted |-> TRUE]

Listeners == {"l1", "l2"}
Prompts == {"make a box"}
QuestionLists == {<<"q1", "q2">>}
QuestionIds == {"q1", "q2"}
Answers == {"a1", "a2"}
ApprovedPlans == {"planA", "planB"}
ResultLists == {<<>>}
ErrorTexts == {"boom", "bang"}

\* The latest call was no setError, no accepted answerQuestion and no handle.
NoArgs == [none |-> TRUE]

\* No listener has been invoked.
NeverInvoked == [l \in Listeners |-> 0]

\* The identity of the state object the current call creates.
NewId == wfCalls + 1

\* assertPhase(expected): the Error it throws, NoError when it returns.
assertPhase(expected) ==
    IF wfState.phase # expected
    THEN [expected |-> expected, got |-> wfState.phase]
    ELSE NoError

\* The history of invocations tells never, once and more than once apart.
atMostTwo(n) == IF n > 1 THEN 2 ELSE n

\* A transition that calls the listener registered first and no other.
notifyFirstOnly(newState) ==
    /\ wfState' = newState
    /\ delivered' = [k \in DOMAIN listeners \cap {1} |->
                        [listener |-> listeners[k], state |-> newState.id]]
    /\ invoked' = [l \in Listeners |->
                      atMostTwo(invoked[l] + Cardinality({k \in DOMAIN listeners \cap {1} :
                                                            listeners[k] = l}))]
    /\ listeners' = listeners

\* transition(newState): assign _state, then call every listener in order.
transition(newState) ==
    /\ wfState' = newState
    /\ delivered' = [k \in DOMAIN listeners |-> [listener |-> listeners[k], state |-> newState.id]]
    /\ invoked' = [l \in Listeners |->
                      atMostTwo(invoked[l] + Cardinality({k \in DOMAIN listeners :
                                                            listeners[k] = l}))]
    /\ listeners' = listeners

\* A call that ends in a throw of assertPhase.
Throws(name, err) ==
    /\ wfError' = err
    /\ lastOp' = [name |-> name, from |-> wfState.phase, accepted |-> FALSE]
    /\ delivered' = <<>>
    /\ UNCHANGED <<wfState, listeners, invoked>>

Returns(name) ==
    /\ wfError' = NoError
    /\ lastOp' = [name |-> name, from |-> wfState.phase, accepted |-> TRUE]

\* A method that transitions first and reports the wrong phase afterwards.
TransitionThenAssert(name, expected, newState) ==
    /\ transition(newState)
    /\ wfError' = assertPhase(expected)
    /\ lastOp' = [name |-> name, from |-> wfState.phase,
                  accepted |-> assertPhase(expected) = NoError]

\* The body of a method that starts with assertPhase(expected) and then
\* calls transition(newState).
AssertThenTransition(name, expected, newState) ==
    IF assertPhase(expected) # NoError
    THEN Throws(name, assertPhase(expected))
    ELSE transition(newState) /\ Returns(name)

\* A method that transitions from phase idle only.
TransitionFromIdleOnly(name, newState) ==
    IF assertPhase("idle") # NoError
    THEN Throws(name, assertPhase("idle"))
    ELSE transition(newState) /\ Returns(name)

\* The body of a method that only calls transition(newState).
TransitionOnly(name, newState) == transition(newState) /\ Returns(name)

Call == wfCalls < MaxCalls /\ wfCalls' = wfCalls + 1

startAnalysis ==
    /\ Call
    /\ lastArgs' = NoArgs
    /\ \E userPrompt \in Prompts :
         AssertThenTransition("startAnalysis", "idle",
             [phase |-> "analyzing", id |-> NewId, userPrompt |-> userPrompt])

requestClarification ==
    /\ Call
    /\ lastArgs' = NoArgs
    /\ \E questions \in QuestionLists :
         AssertThenTransition("requestClarification", "analyzing",
             [phase |-> "clarifying", id |-> NewId, questions |-> questions,
              answers |-> [q \in {} |-> ""]])

\* A Map that holds the latest answer only.
mapOfOne(map, key, value) == [k \in {key} |-> value]

\* The Map answers after answers.set(questionId, answer).
mapSet(map, key, value) ==
    [k \in DOMAIN map \cup {key} |-> IF k = key THEN value ELSE map[k]]

answerQuestion ==
    /\ Call
    /\ \E questionId \in QuestionIds, answer \in Answers :
         /\ IF assertPhase("clarifying") # NoError
            THEN Throws("answerQuestion", assertPhase("clarifying")) /\ lastArgs' = NoArgs
            ELSE /\ lastArgs' = [questionId |-> questionId, answer |-> answer]
                 /\ wfState' = [wfState EXCEPT !.answers = mapSet(@, questionId, answer)]
                 /\ delivered' = <<>>
                 /\ listeners' = listeners
                 /\ invoked' = invoked
                 /\ Returns("answerQuestion")

startPlanning ==
    /\ Call
    /\ lastArgs' = NoArgs
    /\ \E plan \in ApprovedPlans :
         TransitionOnly("startPlanning", [phase |-> "planning", id |-> NewId, plan |-> plan])

awaitApproval ==
    /\ Call
    /\ lastArgs' = NoArgs
    /\ \E plan \in ApprovedPlans :
         TransitionOnly("awaitApproval", [phase |-> "awaiting_approval", id |-> NewId, plan |-> plan])

startExecution ==
    /\ Call
    /\ lastArgs' = NoArgs
    /\ \E plan \in ApprovedPlans :
         AssertThenTransition("startExecution", "awaiting_approval",
             [phase |-> "executing", id |-> NewId, plan |-> plan, currentStepIndex |-> 0])

advanceStep ==
    /\ Call
    /\ lastArgs' = NoArgs
    /\ \E stepIndex \in 0 .. 1 :
         AssertThenTransition("advanceStep", "executing",
             IF wfState.phase = "executing"
             THEN [wfState EXCEPT !.id = NewId, !.currentStepIndex = stepIndex]
             ELSE wfState)

complete ==
    /\ Call
    /\ lastArgs' = NoArgs
    /\ \E plan \in ApprovedPlans, res \in ResultLists :
         TransitionOnly("complete", [phase |-> "completed", id |-> NewId, plan |-> plan, results |-> res])

setError ==
    /\ Call
    /\ \E error \in ErrorTexts, recoverable \in BOOLEAN :
         /\ lastArgs' = [error |-> error, recoverable |-> recoverable]
         /\ TransitionOnly("setError", [phase |-> "error", id |-> NewId, error |-> error,
                                        recoverable |-> recoverable])

reset ==
    /\ Call
    /\ lastArgs' = NoArgs
    /\ TransitionOnly("reset", [phase |-> "idle", id |-> NewId])

\* onStateChange(listener): push the listener.
onStateChange ==
    /\ Len(listeners) < MaxListeners
    /\ \E listener \in Listeners : listeners' = Append(listeners, listener)
    /\ lastArgs' = NoArgs
    /\ UNCHANGED <<wfState, delivered, wfError, lastOp, wfCalls, invoked>>

\* A handle that leaves the array of listeners as it is.
filterNothing(array, listener) == array

\* Line 257: the array of listeners without the listener.
filterOut(array, listener) == SelectSeq(array, LAMBDA l : l # listener)

\* The handle onStateChange returned: filter the listener out.
unsubscribe ==
    /\ \E listener \in Listeners :
         /\ includes(listeners, listener)
         /\ listeners' = filterOut(listeners, listener)
         /\ lastArgs' = [handle |-> listener]
    /\ UNCHANGED <<wfState, delivered, wfError, lastOp, wfCalls, invoked>>

\* ------------------------------------------------------------------------
\* ReasoningStreamProcessor.processStream
\* ------------------------------------------------------------------------

\* Text is a sequence of tokens; the empty text is falsy, as "" is.
ThinkingTexts == {<<>>, <<"th">>}
DeltaTexts == {<<>>, <<"de">>}

NoChunk == [thinking |-> <<>>, delta |-> <<>>, toolCalls |-> <<>>]

\* The n tool calls a chunk carries when k calls came before it in the feed;
\* the input tells the calls apart.
ToolCallsFrom(k, n) == [j \in 1 .. n |-> [name |-> "query", input |-> k + j]]

\* What toolExecutor.execute meets for a call: no handler bound, an input the
\* schema refuses, a handler that returns, a handler that throws, or an input
\* (undefined) on which validateToolInput itself throws.
ToolBehaviours == {"unknown", "invalid", "returns", "handlerThrows", "executeThrows"}

\* ToolExecutor.execute(toolCall): the ToolResult it resolves to; thrown is
\* the error when the promise rejects instead.
toolExecute(call, behaviour) ==
    CASE behaviour = "unknown" ->
           [thrown |-> Undefined, success |-> FALSE, data |-> Undefined,
            error |-> "Unknown tool"]
      [] behaviour = "invalid" ->
           [thrown |-> Undefined, success |-> FALSE, data |-> Undefined,
            error |-> "Missing required field"]
      [] behaviour = "returns" ->
           [thrown |-> Undefined, success |-> TRUE, data |-> "data",
            error |-> Undefined]
      [] behaviour = "handlerThrows" ->
           [thrown |-> Undefined, success |-> FALSE, data |-> Undefined,
            error |-> "Error: handler failed"]
      [] behaviour = "executeThrows" ->
           [thrown |-> "TypeError", success |-> FALSE, data |-> Undefined,
            error |-> Undefined]

\* The fault a tool invocation meets, as String(error) renders it: what the
\* executor throws, or the TypeError of validateToolInput on an input that is
\* undefined; Undefined when the invocation meets no fault.
faultOf(behaviour) ==
    CASE behaviour = "handlerThrows" -> "Error: handler failed"
      [] behaviour = "executeThrows" -> "TypeError"
      [] OTHER -> Undefined

\* No tool call has settled yet.
NoFault == [entry |-> 0, message |-> Undefined]

\* Lines 48-54: route thinking content. Gives the entries and currentThinking.
routeThinking(ent, cur, text) ==
    IF text = <<>> THEN [entries |-> ent, current |-> cur]
    ELSE LET opened == IF cur = 0
                       THEN Append(ent, [type |-> "thinking", content |-> <<>>])
                       ELSE ent
             at == IF cur = 0 THEN Len(opened) ELSE cur
         IN [entries |-> [opened EXCEPT ![at].content = @ \o text], current |-> at]

\* Lines 57-63: route the delta. Gives the entries and currentMessage.
routeDelta(ent, cur, text) ==
    IF text = <<>> THEN [entries |-> ent, current |-> cur]
    ELSE LET opened == IF cur = 0
                       THEN Append(ent, [type |-> "message", role |-> "assistant",
                                         content |-> <<>>])
                       ELSE ent
             at == IF cur = 0 THEN Len(opened) ELSE cur
         IN [entries |-> [opened EXCEPT ![at].content = @ \o text], current |-> at]

\* A loop that takes the tool calls of a chunk last to first.
lastCallFirst(calls) == Reverse(calls)

\* Line 67: the order in which the inner loop takes the tool calls of a chunk.
callOrder(calls) == calls

\* Lines 68-77: push the pending tool_call entry of the next call and call
\* toolExecutor.execute; with no call left the loop waits for the next chunk.
NextToolCall(ent, calls) ==
    IF calls = <<>>
    THEN /\ entries' = ent
         /\ toolEntry' = 0
         /\ callsLeft' = <<>>
         /\ dispatched' = dispatched
         /\ spc' = "running"
    ELSE /\ entries' = Append(ent, [type |-> "tool_call", toolName |-> Head(calls).name,
                                    input |-> Head(calls).input, output |-> Undefined,
                                    status |-> "pending"])
         /\ toolEntry' = Len(ent) + 1
         /\ callsLeft' = Tail(calls)
         /\ dispatched' = Append(dispatched, Head(calls))
         /\ spc' = "awaitTool"

\* processStream(stream) is called: its locals are undefined.
processStream ==
    /\ spc = "idle"
    /\ spc' = "running"
    /\ currentThinking' = 0
    /\ currentMessage' = 0
    /\ UNCHANGED <<entries, toolEntry, chunk, callsLeft, fed, dispatched, chunksSeen, lastFault>>

\* The stream yields a chunk: lines 48-63, then the first tool call if any.
ChunkArrives ==
    /\ spc = "running"
    /\ chunksSeen < MaxChunks
    /\ \E thinking \in ThinkingTexts, delta \in DeltaTexts,
          n \in 0 .. (MaxToolCalls - Len(fed)) :
         LET toolCalls == ToolCallsFrom(Len(fed), n)
             t == routeThinking(entries, currentThinking, thinking)
             m == routeDelta(t.entries, currentMessage, delta)
         IN /\ chunk' = [thinking |-> thinking, delta |-> delta, toolCalls |-> toolCalls]
            /\ chunksSeen' = chunksSeen + 1
            /\ fed' = fed \o toolCalls
            /\ currentThinking' = t.current
            /\ currentMessage' = m.current
            /\ lastFault' = lastFault
            /\ NextToolCall(m.entries, callOrder(toolCalls))

\* A router that records the outcome of a call only when the call succeeded.
settleOnSuccess(ent, at, result) ==
    IF result.thrown = Undefined /\ result.success
    THEN [ent EXCEPT ![at].output = result.data, ![at].status = "success"]
    ELSE ent

\* Lines 78-83: the entry at position at after the awaited call settled with
\* result; the catch branch when the promise rejected.
settle(ent, at, result) ==
    IF result.thrown # Undefined
    THEN [ent EXCEPT ![at].output = result.thrown, ![at].status = "error"]
    ELSE [ent EXCEPT ![at].output = result.data,
                     ![at].status = IF result.success THEN "success" ELSE "error"]

\* await toolExecutor.execute(call) settles: lines 78-83, then the next call.
ToolSettles ==
    /\ spc = "awaitTool"
    /\ \E behaviour \in ToolBehaviours :
         LET result == toolExecute(dispatched[Len(dispatched)], behaviour)
         IN /\ lastFault' = [entry |-> toolEntry, message |-> faultOf(behaviour)]
            /\ NextToolCall(settle(entries, toolEntry, result), callsLeft)
    /\ UNCHANGED <<currentThinking, currentMessage, chunk, fed, chunksSeen>>

\* The stream ends: processStream returns.
StreamEnds ==
    /\ spc = "running"
    /\ spc' = "returned"
    /\ UNCHANGED <<entries, currentThinking, currentMessage, toolEntry, chunk, callsLeft,
                   fed, dispatched, chunksSeen, lastFault>>

\* The stream throws: processStream rejects.
StreamThrows ==
    /\ spc = "running"
    /\ spc' = "rejected"
    /\ UNCHANGED <<entries, currentThinking, currentMessage, toolEntry, chunk, callsLeft,
                   fed, dispatched, chunksSeen, lastFault>>

\* ------------------------------------------------------------------------
\* validateToolInput and ToolExecutor
\* ------------------------------------------------------------------------

\* An object without own properties. (A string built from parts is modelled
\* as the sequence of its parts.)
EmptyObject == [k \in {} |-> Undefined]

\* JavaScript values, by what typeof, Array.isArray and === null tell apart.
ValueKinds == {"string", "number", "array", "object", "null"}

typeOf(value) ==
    CASE value = "string" -> "string"
      [] value = "number" -> "number"
      [] OTHER -> "object"

isArray(value) == value = "array"

\* The property names of the explored inputs, in the order in which an
\* input object lists them (or in the reverse of it).
FieldOrder == <<"name", "count", "tags", "opts", "extra">>

FieldNames == {FieldOrder[k] : k \in DOMAIN FieldOrder}

keysIn(fields, order) == SelectSeq(order, LAMBDA f : f \in fields)

\* The objects with at most n own properties named in names, in both key
\* orders.
ObjectsOver(names, n) ==
    {[kind |-> "object", keys |-> keysIn(DOMAIN o, order), fields |-> o] :
        o \in UNION {[fs -> ValueKinds] : fs \in {f \in SUBSET names : Cardinality(f) <= n}},
        order \in {FieldOrder, Reverse(FieldOrder)}}

\* What a caller can pass as input besides an object: undefined, null or a
\* primitive number.
NonObjects ==
    {[kind |-> k, keys |-> <<>>, fields |-> EmptyObject] : k \in {"undefined", "null", "number"}}

\* The schemas of the explored handlers: properties without required, no
\* properties, required and typed properties of the four checked types, and
\* a property of a type that is not checked.
Schemas ==
    {[properties |-> [name |-> [type |-> "string"]]],
     [properties |-> EmptyObject],
     [required |-> <<"name", "count">>,
      properties |-> [name |-> [type |-> "string"], count |-> [type |-> "number"],
                      tags |-> [type |-> "array"], opts |-> [type |-> "object"]]],
     [required |-> <<"opts">>,
      properties |-> [opts |-> [type |-> "boolean"], tags |-> [note |-> "untyped"]]]}

MissingRequired(field) == <<"Missing required field: ", field>>

MustBe(key, what) == <<"Field '", key, "' must be ", what>>

\* Lines 27-31: the errors of the loop over the required fields.
RECURSIVE requiredErrors(_, _)
requiredErrors(input, required) ==
    IF required = <<>> THEN <<>>
    ELSE (IF Head(required) \in DOMAIN input.fields
          THEN <<>>
          ELSE <<MissingRequired(Head(required))>>)
         \o requiredErrors(input, Tail(required))

\* Lines 34-47: the errors one entry of the input adds.
entryErrors(key, value, properties) ==
    IF key \notin DOMAIN properties THEN <<>>
    ELSE LET propSchema == properties[key]
             expectedType == IF "type" \in DOMAIN propSchema THEN propSchema.type
                             ELSE Undefined
         IN IF expectedType = "string" /\ typeOf(value) # "string"
            THEN <<MustBe(key, "a string")>>
            ELSE IF expectedType = "number" /\ typeOf(value) # "number"
            THEN <<MustBe(key, "a number")>>
            ELSE IF expectedType = "array" /\ ~isArray(value)
            THEN <<MustBe(key, "an array")>>
            ELSE IF expectedType = "object" /\ (typeOf(value) # "object" \/ value = "null")
            THEN <<MustBe(key, "an object")>>
            ELSE <<>>

\* Lines 33-48: the errors of the loop over Object.entries(input).
RECURSIVE typeErrors(_, _, _)
typeErrors(input, keys, properties) ==
    IF keys = <<>> THEN <<>>
    ELSE entryErrors(Head(keys), input.fields[Head(keys)], properties)
         \o typeErrors(input, Tail(keys), properties)

\* validateToolInput(input, schema): {valid, errors}, or the TypeError of
\* the in operator on a value that is no object and of Object.entries on
\* undefined or null.
validateToolInput(input, schema) ==
    LET required == IF "required" \in DOMAIN schema THEN schema.required ELSE <<>>
        properties == IF "properties" \in DOMAIN schema THEN schema.properties
                      ELSE EmptyObject
        errors == requiredErrors(input, required)
                  \o typeErrors(input, input.keys, properties)
    IN IF input.kind \in {"undefined", "null"} \/ (input.kind # "object" /\ required # <<>>)
       THEN [thrown |-> "TypeError"]
       ELSE [valid |-> errors = <<>>, errors |-> errors]

\* errors.join(separator)
RECURSIVE join(_, _)
join(errors, separator) ==
    IF errors = <<>> THEN <<>>
    ELSE IF Len(errors) = 1 THEN Head(errors)
    ELSE Head(errors) \o <<separator>> \o join(Tail(errors), separator)

\* What an executor throws, and String(error) of it.
Fault == [name |-> "Error", message |-> "CAD engine error"]

String(error) == <<error.name, ": ", error.message>>

\* What the executor returns for an input.
returnOf(executor, input) == [by |-> executor, given |-> input]

Executors == {"e1", "e2"}
Handlers == [schema : Schemas, executor : Executors]
RegisteredNames == {"double", "test"}
CallNames == {"double", "nonexistent"}
CallFields == {"name", "count"}
ToolCalls == [name : CallNames, input : ObjectsOver(CallFields, MaxInputFields) \cup NonObjects]

NotCalled == [called |-> FALSE]

\* The components at rest: nothing given, nothing called.
NoInput == [kind |-> "undefined", keys |-> <<>>, fields |-> EmptyObject]
NoCall == [name |-> "", input |-> NoInput]
NoToolOp == [name |-> "none"]

\* An execute that runs the executor before it looks at the validation.
runsBeforeValidating(map, call, executorThrows) ==
    IF call.name \notin DOMAIN map
    THEN [result |-> [success |-> FALSE, error |-> <<"Unknown tool: ", call.name>>],
          runs |-> <<>>]
    ELSE LET handler == map[call.name]
             checked == validateToolInput(call.input, handler.schema)
             run == [executor |-> handler.executor, input |-> call.input,
                     threw |-> executorThrows]
         IN IF "thrown" \in DOMAIN checked
            THEN [result |-> [thrown |-> checked.thrown], runs |-> <<run>>]
            ELSE IF ~checked.valid
            THEN [result |-> [success |-> FALSE, error |-> join(checked.errors, ", ")],
                  runs |-> <<run>>]
            ELSE IF executorThrows
            THEN [result |-> [success |-> FALSE, error |-> String(Fault)], runs |-> <<run>>]
            ELSE [result |-> [success |-> TRUE,
                              data |-> returnOf(handler.executor, call.input)],
                  runs |-> <<run>>]

\* Lines 78-95: what execute(toolCall) resolves to or rejects with, and the
\* handler.execute invocations it makes, when the executor throws or returns.
executeCall(map, call, executorThrows) ==
    IF call.name \notin DOMAIN map
    THEN [result |-> [success |-> FALSE, error |-> <<"Unknown tool: ", call.name>>],
          runs |-> <<>>]
    ELSE LET handler == map[call.name]
             checked == validateToolInput(call.input, handler.schema)
             run == [executor |-> handler.executor, input |-> call.input,
                     threw |-> executorThrows]
         IN IF "thrown" \in DOMAIN checked
            THEN [result |-> [thrown |-> checked.thrown], runs |-> <<>>]
            ELSE IF ~checked.valid
            THEN [result |-> [success |-> FALSE, error |-> join(checked.errors, ", ")],
                  runs |-> <<>>]
            ELSE IF executorThrows
            THEN [result |-> [success |-> FALSE, error |-> String(Fault)], runs |-> <<run>>]
            ELSE [result |-> [success |-> TRUE,
                              data |-> returnOf(handler.executor, call.input)],
                  runs |-> <<run>>]

\* registerHandler(name, handler)
registerHandler ==
    /\ \E name \in RegisteredNames, handler \in Handlers :
         /\ handlers' = mapSet(handlers, name, handler)
         /\ toolOp' = [name |-> "registerHandler", tool |-> name, handler |-> handler]
    /\ UNCHANGED <<toolCall, toolOutcome, executorRuns>>

\* execute(toolCall), up to the promise it returns being settled.
execute ==
    /\ \E executorThrows \in BOOLEAN :
         LET outcome == executeCall(handlers, toolCall, executorThrows)
         IN /\ toolOutcome' = outcome.result
            /\ executorRuns' = outcome.runs
    /\ toolOp' = [name |-> "execute"]
    /\ UNCHANGED <<handlers, toolCall>>

\* A direct call validateToolInput(givenInput, givenSchema).
Validate ==
    /\ validation = NotCalled
    /\ validation' = validateToolInput(givenInput, givenSchema)
    /\ UNCHANGED <<givenInput, givenSchema>>

\* ------------------------------------------------------------------------
\* InMemoryVectorStore
\* ------------------------------------------------------------------------
DocumentIds == {"a", "b"}

\* Float32Array values of one and of two components.
Queries == {<<1>>, <<1, 0>>, <<0, 1>>, <<0, 0>>, <<0 - 1, 1>>}

\* What a document holds beside its id: an embedding, a content and a
\* DocumentMetadata (source always, nodeId when the document is of a node).
Contents ==
    {[embedding |-> <<1, 0>>, content |-> "x-axis",
      metadata |-> [source |-> "scene_node", nodeId |-> "node-1"]],
     [embedding |-> <<0, 1>>, content |-> "y-axis",
      metadata |-> [source |-> "scene_node"]],
     [embedding |-> <<1, 1>>, content |-> "diagonal",
      metadata |-> [source |-> "user_doc", nodeId |-> "node-2"]],
     [embedding |-> <<1>>, content |-> "short",
      metadata |-> [source |-> "user_doc"]]}

VectorDocuments ==
    {[id |-> i, embedding |-> c.embedding, content |-> c.content, metadata |-> c.metadata] :
        i \in DocumentIds, c \in Contents}

\* The arrays upsert is given.
Batches == UNION {[1 .. n -> VectorDocuments] : n \in 1 .. MaxBatch}

\* The arrays remove is given.
IdLists == UNION {[1 .. n -> DocumentIds] : n \in 0 .. MaxBatch}

\* The optional MetadataFilter of search: left out, or an object with any
\* of source and nodeId; a nodeId may be the empty string.
NoFilter == [undefined |-> TRUE]
Filters ==
    {NoFilter, EmptyObject}
    \cup [source : {"scene_node"}]
    \cup [nodeId : {"node-1", ""}]
    \cup [source : {"scene_node"}, nodeId : {"node-1"}]

NoStoreOp == [name |-> "none"]
NoDocument == [stored |-> FALSE]
NothingGiven == [id \in DocumentIds |-> NoDocument]

\* get count(): _documents.size
count == Len(documents)

documentsHas(map, id) == \E j \in DOMAIN map : map[j].id = id

\* A Map.set that adds an entry whether or not the key is there.
setAppends(map, doc) == Append(map, doc)

\* _documents.set(doc.id, doc): an id already there keeps its place in the
\* order of the Map and gets the new document.
documentsSet(map, doc) ==
    IF documentsHas(map, doc.id)
    THEN [j \in DOMAIN map |-> IF map[j].id = doc.id THEN doc ELSE map[j]]
    ELSE Append(map, doc)

\* _documents.delete(id)
documentsDelete(map, id) == SelectSeq(map, LAMBDA d : d.id # id)

MismatchError(what, expected, got) ==
    [message |-> <<what, " dimensions mismatch: expected ", expected, ", got ", got>>]

\* An upsert loop that stores a document without looking at its embedding.
RECURSIVE upsertUnchecked(_, _, _)
upsertUnchecked(map, batch, dims) ==
    IF batch = <<>> THEN [documents |-> map, thrown |-> NoError]
    ELSE upsertUnchecked(documentsSet(map, Head(batch)), Tail(batch), dims)

\* The for loop of upsert: the documents before a mismatching one are stored
\* when the Error is thrown.
RECURSIVE upsertLoop(_, _, _)
upsertLoop(map, batch, dims) ==
    IF batch = <<>> THEN [documents |-> map, thrown |-> NoError]
    ELSE IF Len(Head(batch).embedding) # dims
         THEN [documents |-> map,
               thrown |-> MismatchError("Embedding", dims, Len(Head(batch).embedding))]
         ELSE upsertLoop(documentsSet(map, Head(batch)), Tail(batch), dims)

\* The documents of a batch that upsert reaches: those before the first
\* one whose embedding has another length.
Reached(batch, dims) ==
    LET bad == {j \in DOMAIN batch : Len(batch[j].embedding) # dims}
    IN IF bad = {} THEN batch
       ELSE SubSeq(batch, 1, (CHOOSE j \in bad : \A k \in bad : j <= k) - 1)

\* The document a batch gives for an id: the last one with that id.
GivenFor(given, id, before) ==
    LET js == {j \in DOMAIN given : given[j].id = id}
    IN IF js = {} THEN before
       ELSE given[CHOOSE j \in js : \A k \in js : k <= j]

upsert ==
    \E batch \in Batches :
        LET out == upsertLoop(documents, batch, dimensions)
        IN /\ documents' = out.documents
           /\ storeOp' = [name |-> "upsert",
                          mismatch |-> \E j \in DOMAIN batch :
                                           Len(batch[j].embedding) # dimensions,
                          thrown |-> out.thrown]
           /\ lastGiven' = [id \in DocumentIds |->
                               GivenFor(Reached(batch, dimensions), id, lastGiven[id])]
           /\ searchResults' = NotCalled
           /\ UNCHANGED dimensions

\* The for loop of remove.
RECURSIVE removeLoop(_, _)
removeLoop(map, ids) ==
    IF ids = <<>> THEN map
    ELSE removeLoop(documentsDelete(map, Head(ids)), Tail(ids))

remove ==
    \E ids \in IdLists :
        /\ documents' = removeLoop(documents, ids)
        /\ storeOp' = [name |-> "remove", ids |-> {ids[j] : j \in DOMAIN ids}]
        /\ lastGiven' = [id \in DocumentIds |->
                            IF includes(ids, id) THEN NoDocument ELSE lastGiven[id]]
        /\ searchResults' = NotCalled
        /\ UNCHANGED dimensions

clear ==
    /\ documents' = <<>>
    /\ storeOp' = [name |-> "clear"]
    /\ lastGiven' = NothingGiven
    /\ searchResults' = NotCalled
    /\ UNCHANGED dimensions

dispose ==
    /\ documents' = <<>>
    /\ storeOp' = [name |-> "dispose"]
    /\ lastGiven' = NothingGiven
    /\ searchResults' = NotCalled
    /\ UNCHANGED dimensions

\* The sums of cosineSimilarity's loop: a[1]*b[1] + ... + a[i]*b[i].
RECURSIVE dotProduct(_, _, _)
dotProduct(a, b, i) ==
    IF i = 0 THEN 0 ELSE dotProduct(a, b, i - 1) + a[i] * b[i]

sign(n) == IF n > 0 THEN 1 ELSE IF n < 0 THEN 0 - 1 ELSE 0

\* cosineSimilarity(a, b). The quotient dot / (sqrt(normA) * sqrt(normB)) is
\* kept exact as its sign, the square of dot and normA * normB; it is 0 when
\* the denominator is 0.
cosineSimilarity(a, b) ==
    IF Len(a) # Len(b)
    THEN [thrown |-> [message |-> <<"Vector dimensions mismatch: ", Len(a), " vs ", Len(b)>>]]
    ELSE LET dot == dotProduct(a, b, Len(a))
             normA == dotProduct(a, a, Len(a))
             normB == dotProduct(b, b, Len(b))
         IN IF normA * normB = 0
            THEN [sign |-> 0, square |-> 0, under |-> 1]
            ELSE [sign |-> sign(dot), square |-> dot * dot, under |-> normA * normB]

\* The sign of x - y for two scores.
minus(x, y) == sign(x.sign * x.square * y.under - y.sign * y.square * x.under)

\* if (filter.f && ...): an own property whose value is not the empty string.
truthy(filter, f) == f \in DOMAIN filter /\ filter[f] # ""

\* doc.metadata.nodeId, undefined when the document has none.
nodeIdOf(metadata) == IF "nodeId" \in DOMAIN metadata THEN metadata.nodeId ELSE Undefined

\* The filter of search's loop: FALSE where the loop continues.
passes(filter, doc) ==
    \/ filter = NoFilter
    \/ /\ ~(truthy(filter, "source") /\ doc.metadata.source # filter.source)
       /\ ~(truthy(filter, "nodeId") /\ nodeIdOf(doc.metadata) # filter.nodeId)

\* The for loop of search: the documents that pass the filter, with their
\* scores, in the order of the Map.
RECURSIVE searchLoop(_, _, _)
searchLoop(map, query, filter) ==
    IF map = <<>> THEN <<>>
    ELSE (IF passes(filter, Head(map))
          THEN <<[document |-> Head(map), score |-> cosineSimilarity(query, Head(map).embedding)]>>
          ELSE <<>>)
         \o searchLoop(Tail(map), query, filter)

\* One result put into an array sorted by score: behind every result whose
\* score is not lower (Array.prototype.sort is stable).
insertByScore(sorted, r) ==
    LET ahead == {j \in DOMAIN sorted : minus(sorted[j].score, r.score) >= 0}
        at == IF ahead = {} THEN 0 ELSE CHOOSE j \in ahead : \A k \in ahead : k <= j
    IN SubSeq(sorted, 1, at) \o <<r>> \o SubSeq(sorted, at + 1, Len(sorted))

\* results.sort((a, b) => b.score - a.score)
RECURSIVE sortByScore(_)
sortByScore(found) ==
    IF found = <<>> THEN <<>>
    ELSE insertByScore(sortByScore(SubSeq(found, 1, Len(found) - 1)), found[Len(found)])

\* array.slice(0, end) for end >= 0
slice(array, end) == SubSeq(array, 1, IF end < Len(array) THEN end ELSE Len(array))

search ==
    \E query \in Queries, topK \in 0 .. MaxTopK, filter \in Filters :
        /\ IF Len(query) # dimensions
           THEN /\ storeOp' = [name |-> "search", query |-> query, topK |-> topK,
                               filter |-> filter,
                               thrown |-> MismatchError("Query", dimensions, Len(query))]
                /\ searchResults' = NotCalled
           ELSE LET found == searchLoop(documents, query, filter)
                    failed == {j \in DOMAIN found : "thrown" \in DOMAIN found[j].score}
                IN IF failed # {}
                   THEN /\ storeOp' = [name |-> "search", query |-> query, topK |-> topK,
                                       filter |-> filter,
                                       thrown |-> found[CHOOSE j \in failed :
                                                          \A k \in failed : j <= k].score.thrown]
                        /\ searchResults' = NotCalled
                   ELSE /\ storeOp' = [name |-> "search", query |-> query, topK |-> topK,
                                       filter |-> filter, thrown |-> NoError]
                        /\ searchResults' = [called |-> TRUE,
                                             value |-> slice(sortByScore(found), topK)]
        /\ UNCHANGED <<documents, dimensions, lastGiven>>

\* ------------------------------------------------------------------------
\* ContextAssembler
\* ------------------------------------------------------------------------

\* A string is the sequence of the pieces it was put together from, each with
\* its number of characters; the empty string has no piece.
Str(name, n) == <<[text |-> name, length |-> n]>>

\* text.length
RECURSIVE lengthOf(_)
lengthOf(text) ==
    IF text = <<>> THEN 0 ELSE Head(text).length + lengthOf(Tail(text))

\* estimateTokens(text): 0 for the empty string, else Math.ceil(text.length / 4)
estimateTokens(text) ==
    IF text = <<>> THEN 0 ELSE (lengthOf(text) + 3) \div 4

defaultSystemPrompt == Str("You are a CAD Copilot assistant for Chili3D. ...", 262)

Separator == [text |-> "\n\n---\n\n", length |-> 7]
Space == [text |-> " ", length |-> 1]
ScenePrefix == Str("Scene:\n", 7)
RagPrefix == Str("Relevant context:\n", 18)

\* The arguments of the explored calls.
TokenBudgets == {566, 571, 1000, 12000}
SystemPrompts == {<<>>, Str("Custom system prompt for testing", 32)}
SceneContexts == {<<>>, Str("Scene: 1 object - Cylinder ...", 400)}
QueryTexts == {Str("How do I extrude?", 18)}

TextPart(text) == [type |-> "text", text |-> text]

\* ChatMessages of the conversation: of 100 tokens, of 250 tokens in two text
\* parts around an image, and an image alone.
HistoryMessages ==
    {[role |-> "user", content |-> <<TextPart(Str("Make it bigger", 400))>>],
     [role |-> "assistant",
      content |-> <<TextPart(Str("I scaled it up", 600)), [type |-> "image"],
                    TextPart(Str("by two", 399))>>],
     [role |-> "user", content |-> <<[type |-> "image"]>>]}

Histories == UNION {[1 .. n -> HistoryMessages] : n \in 0 .. MaxHistory}

\* document.content of the ranked results: chunks of 1000, 3200, 100 and 374
\* tokens.
ChunkContents ==
    {Str("extrude", 4000), Str("boolean", 12800), Str("sketch", 400), Str("fillet", 1496)}

RankedLists == UNION {[1 .. n -> ChunkContents] : n \in 0 .. MaxRanked}

BuildContextCalls ==
    [query : QueryTexts, conversationHistory : Histories, sceneContext : SceneContexts,
     tokenBudget : TokenBudgets]
    \cup [query : QueryTexts, conversationHistory : Histories, sceneContext : SceneContexts,
          tokenBudget : TokenBudgets, systemPrompt : SystemPrompts]

NoFeed == [embedText |-> "none", search |-> "none", ranked |-> <<>>]

\* A selection that passes over a chunk that does not fit and goes on.
RECURSIVE selectFitting(_, _, _)
selectFitting(chunks, used, budgetTokens) ==
    IF chunks = <<>> THEN <<>>
    ELSE LET tokens == estimateTokens(Head(chunks))
         IN IF used + tokens > budgetTokens
            THEN selectFitting(Tail(chunks), used, budgetTokens)
            ELSE <<Head(chunks)>> \o selectFitting(Tail(chunks), used + tokens, budgetTokens)

\* The for loop of selectChunks: selected, up to the first chunk that does
\* not fit.
RECURSIVE selectLoop(_, _, _)
selectLoop(chunks, used, budgetTokens) ==
    IF chunks = <<>> THEN <<>>
    ELSE LET tokens == estimateTokens(Head(chunks))
         IN IF used + tokens > budgetTokens
            THEN <<>>
            ELSE <<Head(chunks)>> \o selectLoop(Tail(chunks), used + tokens, budgetTokens)

selectChunks(chunks, budgetTokens) == join(selectLoop(chunks, 0, budgetTokens), Separator)

\* The text of a message as truncateHistory counts it: its text parts,
\* joined by a space.
textOf(msg) ==
    LET parts == SelectSeq(msg.content, LAMBDA c : c.type = "text")
    IN join([j \in DOMAIN parts |-> parts[j].text], Space)

\* A history loop that puts each message behind the ones it has.
RECURSIVE historyPushed(_, _, _, _)
historyPushed(history, i, used, budgetTokens) ==
    IF i = 0 THEN <<>>
    ELSE LET tokens == estimateTokens(textOf(history[i]))
         IN IF used + tokens > budgetTokens
            THEN <<>>
            ELSE <<history[i]>> \o historyPushed(history, i - 1, used + tokens, budgetTokens)

\* The for loop of truncateHistory from message i down: result.unshift(msg)
\* until a message does not fit.
RECURSIVE historyLoop(_, _, _, _)
historyLoop(history, i, used, budgetTokens) ==
    IF i = 0 THEN <<>>
    ELSE LET tokens == estimateTokens(textOf(history[i]))
         IN IF used + tokens > budgetTokens
            THEN <<>>
            ELSE historyLoop(history, i - 1, used + tokens, budgetTokens) \o <<history[i]>>

truncateHistory(history, budgetTokens) ==
    IF budgetTokens <= 0 THEN <<>>
    ELSE historyLoop(history, Len(history), 0, budgetTokens)

\* Math.min(4000, Math.floor((tokenBudget - usedTokens) * 0.4))
ragBudgetOf(tokenBudget, used) ==
    LET share == ((tokenBudget - used) * 2) \div 5
    IN IF share < 4000 THEN share ELSE 4000

\* A history budget that leaves the knowledge tokens out.
historyBudgetWithoutRag(call, used, rag) ==
    call.tokenBudget - (used - estimateTokens(rag)) - estimateTokens(call.query) - 500

\* tokenBudget - usedTokens - estimateTokens(query) - 500
historyBudgetOf(call, used, rag) ==
    call.tokenBudget - used - estimateTokens(call.query) - 500

\* buildContext from the history on: the messages it returns.
finish(msgs, used, rag, call) ==
    LET history == truncateHistory(call.conversationHistory, historyBudgetOf(call, used, rag))
        userParts ==
            (IF call.sceneContext # <<>>
             THEN <<TextPart(ScenePrefix \o call.sceneContext)>> ELSE <<>>)
            \o (IF rag # <<>> THEN <<TextPart(RagPrefix \o rag)>> ELSE <<>>)
            \o <<TextPart(call.query)>>
    IN msgs \o history \o <<[role |-> "user", content |-> userParts]>>

\* buildContext up to its first await, or to its end when the store is empty.
buildContext ==
    /\ cpc = "idle"
    /\ LET system == IF "systemPrompt" \in DOMAIN ctxCall
                     THEN ctxCall.systemPrompt ELSE defaultSystemPrompt
           used == estimateTokens(system) + estimateTokens(ctxCall.sceneContext)
           msgs == <<[role |-> "system", content |-> <<TextPart(system)>>]>>
       IN /\ usedTokens' = used
          /\ IF vectorCount > 0
             THEN /\ cpc' = "embedText"
                  /\ messages' = msgs
             ELSE /\ cpc' = "returned"
                  /\ messages' = finish(msgs, used, <<>>, ctxCall)
    /\ UNCHANGED <<ctxCall, vectorCount, ragContext, ragFeed>>

\* An embedText whose rejection no catch takes: buildContext rejects.
embedTextUncaught ==
    /\ cpc = "embedText"
    /\ \E resolved \in BOOLEAN :
         IF resolved
         THEN /\ cpc' = "search"
              /\ ragFeed' = [ragFeed EXCEPT !.embedText = "resolved"]
         ELSE /\ cpc' = "thrown"
              /\ ragFeed' = [ragFeed EXCEPT !.embedText = "rejected"]
    /\ UNCHANGED <<ctxCall, vectorCount, usedTokens, messages, ragContext>>

\* provider.embedText settles: resolved, the search is called; rejected, the
\* catch takes over with ragContext still "" and buildContext goes on to its
\* end.
embedTextSettles ==
    /\ cpc = "embedText"
    /\ \E resolved \in BOOLEAN :
         IF resolved
         THEN /\ cpc' = "search"
              /\ ragFeed' = [ragFeed EXCEPT !.embedText = "resolved"]
              /\ UNCHANGED messages
         ELSE /\ cpc' = "returned"
              /\ ragFeed' = [ragFeed EXCEPT !.embedText = "rejected"]
              /\ messages' = finish(messages, usedTokens, ragContext, ctxCall)
    /\ UNCHANGED <<ctxCall, vectorCount, usedTokens, ragContext>>

\* vectorStore.search settles: resolved, the chunks are selected and counted;
\* rejected, the catch takes over with ragContext still "". buildContext goes
\* on to its end.
searchSettles ==
    /\ cpc = "search"
    /\ \/ \E ranked \in RankedLists :
            LET rag == selectChunks(ranked, ragBudgetOf(ctxCall.tokenBudget, usedTokens))
            IN /\ ragFeed' = [ragFeed EXCEPT !.search = "resolved", !.ranked = ranked]
               /\ ragContext' = rag
               /\ usedTokens' = usedTokens + estimateTokens(rag)
               /\ messages' = finish(messages, usedTokens + estimateTokens(rag), rag, ctxCall)
       \/ /\ ragFeed' = [ragFeed EXCEPT !.search = "rejected"]
          /\ UNCHANGED <<usedTokens, ragContext>>
          /\ messages' = finish(messages, usedTokens, ragContext, ctxCall)
    /\ cpc' = "returned"
    /\ UNCHANGED <<ctxCall, vectorCount>>

\* ------------------------------------------------------------------------
\* Specifications: one per component, the other components at rest
\* ------------------------------------------------------------------------

\* Before executePlan is called on a plan whose steps are all pending; the
\* state machine and the router are at rest.
ExecInit ==
    /\ steps \in Plans
    /\ sortedSteps = <<>>
    /\ results = <<>>
    /\ pc = "idle"
    /\ pos = 0
    /\ aborted = FALSE
    /\ chatLog = <<>>
    /\ lastTool = NoStep
    /\ retryLog = <<>>
    /\ wfState = [phase |-> "idle", id |-> 0] /\ listeners = <<>> /\ delivered = <<>>
    /\ wfError = NoError /\ lastOp = NoOp /\ wfCalls = 0
    /\ lastArgs = NoArgs /\ invoked = NeverInvoked
    /\ entries = <<>> /\ currentThinking = 0 /\ currentMessage = 0 /\ toolEntry = 0
    /\ spc = "idle" /\ chunk = NoChunk /\ callsLeft = <<>> /\ fed = <<>>
    /\ dispatched = <<>> /\ chunksSeen = 0 /\ lastFault = NoFault
    /\ givenInput = NoInput /\ givenSchema = EmptyObject /\ validation = NotCalled
    /\ handlers = EmptyObject /\ toolCall = NoCall /\ toolOutcome = NotCalled
    /\ executorRuns = <<>> /\ toolOp = NoToolOp
    /\ documents = <<>> /\ dimensions = 0 /\ storeOp = NoStoreOp
    /\ searchResults = NotCalled /\ lastGiven = NothingGiven
    /\ ctxCall = NotCalled /\ vectorCount = 0 /\ cpc = "idle" /\ messages = <<>>
    /\ usedTokens = 0 /\ ragContext = <<>> /\ ragFeed = NoFeed
    /\ chunkCall = NotCalled /\ chunkPc = "idle" /\ parasLeft = <<>> /\ currentText = <<>>
    /\ sentencesLeft = <<>> /\ sentenceChunk = <<>> /\ sliceAt = 0 /\ chunkList = <<>>

ExecNext ==
    \/ ExecutePlan /\ UNCHANGED <<wfVars, streamVars, valVars, toolVars, storeVars, ctxVars, chunkVars>>
    \/ ExecuteStepReturns /\ UNCHANGED <<wfVars, streamVars, valVars, toolVars, storeVars, ctxVars, chunkVars>>
    \/ RetryStepReturns /\ UNCHANGED <<wfVars, streamVars, valVars, toolVars, storeVars, ctxVars, chunkVars>>
    \/ Abort /\ UNCHANGED <<wfVars, streamVars, valVars, toolVars, storeVars, ctxVars, chunkVars>>

SpecExec == ExecInit /\ [][ExecNext]_vars

\* executePlan with the awaited calls settling: the stream of a model call
\* ends or throws, so the await of executeStep and of retryStep resolves.
SpecExecFair ==
    /\ ExecInit
    /\ [][ExecNext]_vars
    /\ WF_vars(ExecuteStepReturns /\ UNCHANGED <<wfVars, streamVars, valVars, toolVars, storeVars, ctxVars, chunkVars>>)
    /\ WF_vars(RetryStepReturns /\ UNCHANGED <<wfVars, streamVars, valVars, toolVars, storeVars, ctxVars, chunkVars>>)

\* A new WorkflowStateMachine; the scheduler and the router are at rest.
WfInit ==
    /\ wfState = [phase |-> "idle", id |-> 0]
    /\ listeners = <<>>
    /\ delivered = <<>>
    /\ wfError = NoError
    /\ lastOp = NoOp
    /\ wfCalls = 0
    /\ lastArgs = NoArgs
    /\ invoked = NeverInvoked
    /\ steps = <<>> /\ sortedSteps = <<>> /\ results = <<>> /\ pc = "idle" /\ pos = 0
    /\ aborted = FALSE /\ chatLog = <<>> /\ lastTool = NoStep /\ retryLog = <<>>
    /\ entries = <<>> /\ currentThinking = 0 /\ currentMessage = 0 /\ toolEntry = 0
    /\ spc = "idle" /\ chunk = NoChunk /\ callsLeft = <<>> /\ fed = <<>>
    /\ dispatched = <<>> /\ chunksSeen = 0 /\ lastFault = NoFault
    /\ givenInput = NoInput /\ givenSchema = EmptyObject /\ validation = NotCalled
    /\ handlers = EmptyObject /\ toolCall = NoCall /\ toolOutcome = NotCalled
    /\ executorRuns = <<>> /\ toolOp = NoToolOp
    /\ documents = <<>> /\ dimensions = 0 /\ storeOp = NoStoreOp
    /\ searchResults = NotCalled /\ lastGiven = NothingGiven
    /\ ctxCall = NotCalled /\ vectorCount = 0 /\ cpc = "idle" /\ messages = <<>>
    /\ usedTokens = 0 /\ ragContext = <<>> /\ ragFeed = NoFeed
    /\ chunkCall = NotCalled /\ chunkPc = "idle" /\ parasLeft = <<>> /\ currentText = <<>>
    /\ sentencesLeft = <<>> /\ sentenceChunk = <<>> /\ sliceAt = 0 /\ chunkList = <<>>

WfNext ==
    \/ startAnalysis /\ UNCHANGED <<execVars, streamVars, valVars, toolVars, storeVars, ctxVars, chunkVars>>
    \/ requestClarification /\ UNCHANGED <<execVars, streamVars, valVars, toolVars, storeVars, ctxVars, chunkVars>>
    \/ answerQuestion /\ UNCHANGED <<execVars, streamVars, valVars, toolVars, storeVars, ctxVars, chunkVars>>
    \/ startPlanning /\ UNCHANGED <<execVars, streamVars, valVars, toolVars, storeVars, ctxVars, chunkVars>>
    \/ awaitApproval /\ UNCHANGED <<execVars, streamVars, valVars, toolVars, storeVars, ctxVars, chunkVars>>
    \/ startExecution /\ UNCHANGED <<execVars, streamVars, valVars, toolVars, storeVars, ctxVars, chunkVars>>
    \/ advanceStep /\ UNCHANGED <<execVars, streamVars, valVars, toolVars, storeVars, ctxVars, chunkVars>>
    \/ complete /\ UNCHANGED <<execVars, streamVars, valVars, toolVars, storeVars, ctxVars, chunkVars>>
    \/ setError /\ UNCHANGED <<execVars, streamVars, valVars, toolVars, storeVars, ctxVars, chunkVars>>
    \/ reset /\ UNCHANGED <<execVars, streamVars, valVars, toolVars, storeVars, ctxVars, chunkVars>>
    \/ onStateChange /\ UNCHANGED <<execVars, streamVars, valVars, toolVars, storeVars, ctxVars, chunkVars>>
    \/ unsubscribe /\ UNCHANGED <<execVars, streamVars, valVars, toolVars, storeVars, ctxVars, chunkVars>>

SpecWf == WfInit /\ [][WfNext]_vars

\* Before processStream is called; the trace is the caller's: empty, or
\* holding an entry of an earlier response. The scheduler and the state
\* machine are at rest.
StreamInit ==
    /\ entries \in {<<>>, <<[type |-> "message", role |-> "assistant", content |-> <<"old">>]>>}
    /\ currentThinking = 0
    /\ currentMessage = 0
    /\ toolEntry = 0
    /\ spc = "idle"
    /\ chunk = NoChunk
    /\ callsLeft = <<>>
    /\ fed = <<>>
    /\ dispatched = <<>>
    /\ chunksSeen = 0
    /\ lastFault = NoFault
    /\ steps = <<>> /\ sortedSteps = <<>> /\ results = <<>> /\ pc = "idle" /\ pos = 0
    /\ aborted = FALSE /\ chatLog = <<>> /\ lastTool = NoStep /\ retryLog = <<>>
    /\ wfState = [phase |-> "idle", id |-> 0] /\ listeners = <<>> /\ delivered = <<>>
    /\ wfError = NoError /\ lastOp = NoOp /\ wfCalls = 0
    /\ lastArgs = NoArgs /\ invoked = NeverInvoked
    /\ givenInput = NoInput /\ givenSchema = EmptyObject /\ validation = NotCalled
    /\ handlers = EmptyObject /\ toolCall = NoCall /\ toolOutcome = NotCalled
    /\ executorRuns = <<>> /\ toolOp = NoToolOp
    /\ documents = <<>> /\ dimensions = 0 /\ storeOp = NoStoreOp
    /\ searchResults = NotCalled /\ lastGiven = NothingGiven
    /\ ctxCall = NotCalled /\ vectorCount = 0 /\ cpc = "idle" /\ messages = <<>>
    /\ usedTokens = 0 /\ ragContext = <<>> /\ ragFeed = NoFeed
    /\ chunkCall = NotCalled /\ chunkPc = "idle" /\ parasLeft = <<>> /\ currentText = <<>>
    /\ sentencesLeft = <<>> /\ sentenceChunk = <<>> /\ sliceAt = 0 /\ chunkList = <<>>

StreamNext ==
    \/ processStream /\ UNCHANGED <<execVars, wfVars, valVars, toolVars, storeVars, ctxVars, chunkVars>>
    \/ ChunkArrives /\ UNCHANGED <<execVars, wfVars, valVars, toolVars, storeVars, ctxVars, chunkVars>>
    \/ ToolSettles /\ UNCHANGED <<execVars, wfVars, valVars, toolVars, storeVars, ctxVars, chunkVars>>
    \/ StreamEnds /\ UNCHANGED <<execVars, wfVars, valVars, toolVars, storeVars, ctxVars, chunkVars>>
    \/ StreamThrows /\ UNCHANGED <<execVars, wfVars, valVars, toolVars, storeVars, ctxVars, chunkVars>>

SpecStream == StreamInit /\ [][StreamNext]_vars

\* Before validateToolInput is called on an input and a schema; the other
\* components are at rest.
ValidateInit ==
    /\ givenInput \in ObjectsOver(FieldNames, MaxInputFields) \cup NonObjects
    /\ givenSchema \in Schemas
    /\ validation = NotCalled
    /\ handlers = EmptyObject /\ toolCall = NoCall /\ toolOutcome = NotCalled
    /\ executorRuns = <<>> /\ toolOp = NoToolOp
    /\ steps = <<>> /\ sortedSteps = <<>> /\ results = <<>> /\ pc = "idle" /\ pos = 0
    /\ aborted = FALSE /\ chatLog = <<>> /\ lastTool = NoStep /\ retryLog = <<>>
    /\ wfState = [phase |-> "idle", id |-> 0] /\ listeners = <<>> /\ delivered = <<>>
    /\ wfError = NoError /\ lastOp = NoOp /\ wfCalls = 0
    /\ lastArgs = NoArgs /\ invoked = NeverInvoked
    /\ entries = <<>> /\ currentThinking = 0 /\ currentMessage = 0 /\ toolEntry = 0
    /\ spc = "idle" /\ chunk = NoChunk /\ callsLeft = <<>> /\ fed = <<>>
    /\ dispatched = <<>> /\ chunksSeen = 0 /\ lastFault = NoFault
    /\ documents = <<>> /\ dimensions = 0 /\ storeOp = NoStoreOp
    /\ searchResults = NotCalled /\ lastGiven = NothingGiven
    /\ ctxCall = NotCalled /\ vectorCount = 0 /\ cpc = "idle" /\ messages = <<>>
    /\ usedTokens = 0 /\ ragContext = <<>> /\ ragFeed = NoFeed
    /\ chunkCall = NotCalled /\ chunkPc = "idle" /\ parasLeft = <<>> /\ currentText = <<>>
    /\ sentencesLeft = <<>> /\ sentenceChunk = <<>> /\ sliceAt = 0 /\ chunkList = <<>>

ValidateNext ==
    \/ Validate /\ UNCHANGED <<execVars, wfVars, streamVars, toolVars, storeVars, ctxVars, chunkVars>>

SpecValidate == ValidateInit /\ [][ValidateNext]_vars

\* A new ToolExecutor and a call that will be given to execute; the other
\* components are at rest.
ToolInit ==
    /\ handlers = EmptyObject
    /\ toolCall \in ToolCalls
    /\ toolOutcome = NotCalled
    /\ executorRuns = <<>>
    /\ toolOp = NoToolOp
    /\ givenInput = NoInput /\ givenSchema = EmptyObject /\ validation = NotCalled
    /\ steps = <<>> /\ sortedSteps = <<>> /\ results = <<>> /\ pc = "idle" /\ pos = 0
    /\ aborted = FALSE /\ chatLog = <<>> /\ lastTool = NoStep /\ retryLog = <<>>
    /\ wfState = [phase |-> "idle", id |-> 0] /\ listeners = <<>> /\ delivered = <<>>
    /\ wfError = NoError /\ lastOp = NoOp /\ wfCalls = 0
    /\ lastArgs = NoArgs /\ invoked = NeverInvoked
    /\ entries = <<>> /\ currentThinking = 0 /\ currentMessage = 0 /\ toolEntry = 0
    /\ spc = "idle" /\ chunk = NoChunk /\ callsLeft = <<>> /\ fed = <<>>
    /\ dispatched = <<>> /\ chunksSeen = 0 /\ lastFault = NoFault
    /\ documents = <<>> /\ dimensions = 0 /\ storeOp = NoStoreOp
    /\ searchResults = NotCalled /\ lastGiven = NothingGiven
    /\ ctxCall = NotCalled /\ vectorCount = 0 /\ cpc = "idle" /\ messages = <<>>
    /\ usedTokens = 0 /\ ragContext = <<>> /\ ragFeed = NoFeed
    /\ chunkCall = NotCalled /\ chunkPc = "idle" /\ parasLeft = <<>> /\ currentText = <<>>
    /\ sentencesLeft = <<>> /\ sentenceChunk = <<>> /\ sliceAt = 0 /\ chunkList = <<>>

ToolNext ==
    \/ registerHandler /\ UNCHANGED <<execVars, wfVars, streamVars, valVars, storeVars, ctxVars, chunkVars>>
    \/ execute /\ UNCHANGED <<execVars, wfVars, streamVars, valVars, storeVars, ctxVars, chunkVars>>

SpecTool == ToolInit /\ [][ToolNext]_vars

\* A new InMemoryVectorStore of some dimensions; the other components are
\* at rest.
StoreInit ==
    /\ documents = <<>>
    /\ dimensions \in {1, 2}
    /\ storeOp = NoStoreOp
    /\ searchResults = NotCalled
    /\ lastGiven = NothingGiven
    /\ steps = <<>> /\ sortedSteps = <<>> /\ results = <<>> /\ pc = "idle" /\ pos = 0
    /\ aborted = FALSE /\ chatLog = <<>> /\ lastTool = NoStep /\ retryLog = <<>>
    /\ wfState = [phase |-> "idle", id |-> 0] /\ listeners = <<>> /\ delivered = <<>>
    /\ wfError = NoError /\ lastOp = NoOp /\ wfCalls = 0
    /\ lastArgs = NoArgs /\ invoked = NeverInvoked
    /\ entries = <<>> /\ currentThinking = 0 /\ currentMessage = 0 /\ toolEntry = 0
    /\ spc = "idle" /\ chunk = NoChunk /\ callsLeft = <<>> /\ fed = <<>>
    /\ dispatched = <<>> /\ chunksSeen = 0 /\ lastFault = NoFault
    /\ givenInput = NoInput /\ givenSchema = EmptyObject /\ validation = NotCalled
    /\ handlers = EmptyObject /\ toolCall = NoCall /\ toolOutcome = NotCalled
    /\ executorRuns = <<>> /\ toolOp = NoToolOp
    /\ ctxCall = NotCalled /\ vectorCount = 0 /\ cpc = "idle" /\ messages = <<>>
    /\ usedTokens = 0 /\ ragContext = <<>> /\ ragFeed = NoFeed
    /\ chunkCall = NotCalled /\ chunkPc = "idle" /\ parasLeft = <<>> /\ currentText = <<>>
    /\ sentencesLeft = <<>> /\ sentenceChunk = <<>> /\ sliceAt = 0 /\ chunkList = <<>>

StoreNext ==
    \/ upsert /\ UNCHANGED <<execVars, wfVars, streamVars, valVars, toolVars, ctxVars, chunkVars>>
    \/ remove /\ UNCHANGED <<execVars, wfVars, streamVars, valVars, toolVars, ctxVars, chunkVars>>
    \/ search /\ UNCHANGED <<execVars, wfVars, streamVars, valVars, toolVars, ctxVars, chunkVars>>
    \/ clear /\ UNCHANGED <<execVars, wfVars, streamVars, valVars, toolVars, ctxVars, chunkVars>>
    \/ dispose /\ UNCHANGED <<execVars, wfVars, streamVars, valVars, toolVars, ctxVars, chunkVars>>

SpecStore == StoreInit /\ [][StoreNext]_vars

\* Before buildContext is called with some arguments on an assembler whose
\* store is empty or not; the other components are at rest.
ContextInit ==
    /\ ctxCall \in BuildContextCalls
    /\ vectorCount \in {0, 2}
    /\ cpc = "idle"
    /\ messages = <<>>
    /\ usedTokens = 0
    /\ ragContext = <<>>
    /\ ragFeed = NoFeed
    /\ steps = <<>> /\ sortedSteps = <<>> /\ results = <<>> /\ pc = "idle" /\ pos = 0
    /\ aborted = FALSE /\ chatLog = <<>> /\ lastTool = NoStep /\ retryLog = <<>>
    /\ wfState = [phase |-> "idle", id |-> 0] /\ listeners = <<>> /\ delivered = <<>>
    /\ wfError = NoError /\ lastOp = NoOp /\ wfCalls = 0
    /\ lastArgs = NoArgs /\ invoked = NeverInvoked
    /\ entries = <<>> /\ currentThinking = 0 /\ currentMessage = 0 /\ toolEntry = 0
    /\ spc = "idle" /\ chunk = NoChunk /\ callsLeft = <<>> /\ fed = <<>>
    /\ dispatched = <<>> /\ chunksSeen = 0 /\ lastFault = NoFault
    /\ givenInput = NoInput /\ givenSchema = EmptyObject /\ validation = NotCalled
    /\ handlers = EmptyObject /\ toolCall = NoCall /\ toolOutcome = NotCalled
    /\ executorRuns = <<>> /\ toolOp = NoToolOp
    /\ documents = <<>> /\ dimensions = 0 /\ storeOp = NoStoreOp
    /\ searchResults = NotCalled /\ lastGiven = NothingGiven
    /\ chunkCall = NotCalled /\ chunkPc = "idle" /\ parasLeft = <<>> /\ currentText = <<>>
    /\ sentencesLeft = <<>> /\ sentenceChunk = <<>> /\ sliceAt = 0 /\ chunkList = <<>>

ContextNext ==
    \/ buildContext /\ UNCHANGED <<execVars, wfVars, streamVars, valVars, toolVars, storeVars, chunkVars>>
    \/ embedTextSettles /\ UNCHANGED <<execVars, wfVars, streamVars, valVars, toolVars, storeVars, chunkVars>>
    \/ searchSettles /\ UNCHANGED <<execVars, wfVars, streamVars, valVars, toolVars, storeVars, chunkVars>>

SpecContext == ContextInit /\ [][ContextNext]_vars

\* ------------------------------------------------------------------------
\* Properties of the workflow state machine
\* ------------------------------------------------------------------------

\* The phases of the lifecycle from which each gated operation follows.
RequiredPhases(name) ==
    CASE name = "startAnalysis" -> {"idle"}
      [] name = "requestClarification" -> {"analyzing"}
      [] name = "answerQuestion" -> {"clarifying"}
      [] name = "startPlanning" -> {"analyzing", "clarifying"}
      [] name = "awaitApproval" -> {"planning"}
      [] name = "startExecution" -> {"awaiting_approval"}
      [] name = "advanceStep" -> {"executing"}
      [] name = "complete" -> {"executing"}
      [] OTHER -> {}

GatedOperations ==
    {"startAnalysis", "requestClarification", "answerQuestion", "startPlanning",
     "awaitApproval", "startExecution", "advanceStep", "complete"}

\* C3 as claimed: a gated operation is accepted exactly from its predecessor
\* phase, a rejection names the expected and the actual phase, and reset and
\* setError are accepted from every phase.
C3_GatedTransitions ==
    /\ lastOp.name \in GatedOperations =>
         /\ lastOp.accepted <=> lastOp.from \in RequiredPhases(lastOp.name)
         /\ ~lastOp.accepted =>
              /\ wfError.expected \in RequiredPhases(lastOp.name)
              /\ wfError.got = lastOp.from
    /\ lastOp.name \in {"reset", "setError"} => lastOp.accepted

\* C4: a call rejected with an invalid-transition error leaves the state
\* (phase and payload) and the listeners as they were and invokes no
\* listener; a transition that is accepted installs the new state and
\* invokes every registered listener with it.
C4_RejectedChangesNothing ==
    [][wfCalls' = wfCalls + 1 =>
          IF ~lastOp'.accepted
          THEN /\ wfError' # NoError
               /\ wfError'.got = wfState.phase
               /\ wfState' = wfState
               /\ listeners' = listeners
               /\ delivered' = <<>>
          ELSE /\ wfError' = NoError
               /\ lastOp'.name # "answerQuestion" =>
                    /\ wfState'.id = wfCalls'
                    /\ Len(delivered') = Len(listeners)
                    /\ \A k \in DOMAIN delivered' :
                         /\ delivered'[k].listener = listeners[k]
                         /\ delivered'[k].state = wfState'.id]_vars

\* A call has been rejected in phase clarifying, with an answer recorded and
\* two listeners registered.
C4_Witness ==
    /\ ~lastOp.accepted
    /\ wfState.phase = "clarifying"
    /\ DOMAIN wfState.answers # {}
    /\ Len(listeners) = 2

\* A call that ran transition: it returned and was not answerQuestion.
Transitioned ==
    wfCalls' = wfCalls + 1 /\ lastOp'.accepted /\ lastOp'.name # "answerQuestion"

\* C13: a call that transitions (reset and setError among them) invokes
\* each registered listener once per registration, with the new state
\* object, in registration order, before it returns; a call that does not
\* transition invokes none.
C13_ListenersNotified ==
    [][wfCalls' = wfCalls + 1 =>
          IF Transitioned
          THEN /\ wfState'.id = wfCalls'
               /\ delivered' = [k \in DOMAIN listeners |->
                                   [listener |-> listeners[k], state |-> wfState'.id]]
               /\ \A l \in Listeners :
                    invoked'[l] = atMostTwo(invoked[l] + CountIn(listeners, l))
          ELSE delivered' = <<>> /\ invoked' = invoked]_vars

\* reset has notified two different listeners, each with the idle state.
C13_Witness ==
    /\ lastOp.name = "reset"
    /\ wfState.phase = "idle"
    /\ Len(delivered) = 2
    /\ delivered[1].listener # delivered[2].listener
    /\ \A k \in DOMAIN delivered : delivered[k].state = wfState.id

\* The listener l is among the invocations of the latest call.
DeliveredTo(del, l) == \E k \in DOMAIN del : del[k].listener = l

\* C14: the handle of a listener takes that listener out of the array and
\* leaves the others registered in their order; a listener that is not
\* registered is invoked by no call, the registered ones by every call that
\* transitions. So a listener registered, notified of one transition and
\* then de-registered stays at one invocation.
C14_Unsubscribed ==
    /\ []("handle" \in DOMAIN lastArgs => ~includes(listeners, lastArgs.handle))
    /\ [][/\ "handle" \in DOMAIN lastArgs' /\ lastArgs' # lastArgs =>
               /\ listeners' = SelectSeq(listeners, LAMBDA x : x # lastArgs'.handle)
               /\ invoked' = invoked
          /\ wfCalls' = wfCalls + 1 =>
               \A l \in Listeners :
                 IF includes(listeners, l)
                 THEN Transitioned => DeliveredTo(delivered', l)
                 ELSE ~DeliveredTo(delivered', l) /\ invoked'[l] = invoked[l]]_vars

\* l1 and l2 were notified of one transition, l1 was de-registered and a
\* second transition has notified l2 alone: l1 has been invoked once.
C14_Witness ==
    /\ lastOp.accepted
    /\ wfCalls = 2
    /\ wfState.id = 2
    /\ ~includes(listeners, "l1")
    /\ invoked["l1"] = 1
    /\ invoked["l2"] = 2
    /\ delivered = <<[listener |-> "l2", state |-> 2]>>

\* C15: reset and setError return from every phase; reset installs a state
\* of phase idle with no payload, setError a state of phase error with the
\* error text and the recoverable flag it was given.
C15_NeverRejected ==
    [][wfCalls' = wfCalls + 1 =>
          /\ lastOp'.name = "reset" =>
               /\ lastOp'.accepted
               /\ wfError' = NoError
               /\ wfState' = [phase |-> "idle", id |-> wfCalls']
          /\ lastOp'.name = "setError" =>
               /\ lastOp'.accepted
               /\ wfError' = NoError
               /\ wfState' = [phase |-> "error", id |-> wfCalls',
                              error |-> lastArgs'.error,
                              recoverable |-> lastArgs'.recoverable]]_vars

\* reset was called in phase error, as the last of MaxCalls calls and with a
\* listener registered: the machine is idle again.
C15_Witness ==
    /\ lastOp = [name |-> "reset", from |-> "error", accepted |-> TRUE]
    /\ wfState.phase = "idle"
    /\ wfCalls = MaxCalls
    /\ Len(listeners) = 1

\* C16: answerQuestion in phase clarifying sets answers[questionId] to the
\* answer, overwriting an earlier one, and keeps the other answers, the
\* questions, the phase and the state object; no listener is invoked. In
\* every other phase it throws the invalid-transition error and changes
\* nothing.
C16_AnswerRecorded ==
    [][wfCalls' = wfCalls + 1 /\ lastOp'.name = "answerQuestion" =>
          IF wfState.phase = "clarifying"
          THEN /\ lastOp'.accepted
               /\ wfError' = NoError
               /\ DOMAIN wfState'.answers = DOMAIN wfState.answers \cup {lastArgs'.questionId}
               /\ wfState'.answers[lastArgs'.questionId] = lastArgs'.answer
               /\ \A q \in DOMAIN wfState.answers \ {lastArgs'.questionId} :
                    wfState'.answers[q] = wfState.answers[q]
               /\ DOMAIN wfState' = DOMAIN wfState
               /\ wfState'.phase = "clarifying"
               /\ wfState'.id = wfState.id
               /\ wfState'.questions = wfState.questions
               /\ listeners' = listeners
               /\ delivered' = <<>>
               /\ invoked' = invoked
          ELSE /\ ~lastOp'.accepted
               /\ wfError' = [expected |-> "clarifying", got |-> wfState.phase]
               /\ wfState' = wfState
               /\ listeners' = listeners
               /\ delivered' = <<>>
               /\ invoked' = invoked]_vars

\* Three answers were given to the two questions of the clarifying state,
\* so one of them replaced an earlier answer; a listener is registered.
C16_Witness ==
    /\ lastOp = [name |-> "answerQuestion", from |-> "clarifying", accepted |-> TRUE]
    /\ wfCalls = MaxCalls
    /\ wfState.id = 2
    /\ DOMAIN wfState.answers = {"q1", "q2"}
    /\ "questionId" \in DOMAIN lastArgs
    /\ wfState.answers[lastArgs.questionId] = lastArgs.answer
    /\ listeners # <<>>

\* ------------------------------------------------------------------------
\* Properties of the streaming router
\* ------------------------------------------------------------------------

\* The entry at position cur is the last entry: nothing was appended after it.
StillOpen(ent, cur) == cur # 0 /\ cur = Len(ent)

\* A fragment routed as the data model states it: appended to the entry at
\* cur when that entry is still open, else opening a new entry of the kind.
RoutedAsStated(before, after, cur, text, kind) ==
    IF text = <<>> THEN after = before
    ELSE IF StillOpen(before, cur)
         THEN after = [before EXCEPT ![cur].content = @ \o text]
         ELSE /\ Len(after) = Len(before) + 1
              /\ \A k \in DOMAIN before : after[k] = before[k]
              /\ after[Len(after)].type = kind
              /\ after[Len(after)].content = text

\* C9 as claimed: a thinking (message) fragment extends the thinking
\* (message) entry only while that entry is still the open accumulator; once
\* another entry has been appended after it, the fragment opens a new entry.
C9_ClosedAccumulator ==
    [][chunksSeen' = chunksSeen + 1 =>
          LET t == routeThinking(entries, currentThinking, chunk'.thinking)
              m == routeDelta(t.entries, currentMessage, chunk'.delta)
          IN /\ RoutedAsStated(entries, t.entries, currentThinking, chunk'.thinking, "thinking")
             /\ RoutedAsStated(t.entries, m.entries, currentMessage, chunk'.delta, "message")]_vars

\* The tool calls recorded by the tool_call entries of the trace, in trace order.
RECURSIVE ToolCallsOfTrace(_)
ToolCallsOfTrace(ent) ==
    IF ent = <<>> THEN <<>>
    ELSE (IF Head(ent).type = "tool_call"
          THEN <<[name |-> Head(ent).toolName, input |-> Head(ent).input]>>
          ELSE <<>>)
         \o ToolCallsOfTrace(Tail(ent))

IsPrefix(a, b) == Len(a) <= Len(b) /\ \A k \in DOMAIN a : a[k] = b[k]

\* C10: the tool calls are passed to toolExecutor.execute in feed order
\* (chunk by chunk, then by position in the chunk), all of them once
\* processStream is between chunks or has returned, and the tool_call
\* entries of the trace stand in that same order.
C10_ToolCallOrder ==
    /\ IsPrefix(dispatched, fed)
    /\ spc \in {"running", "returned"} => dispatched = fed
    /\ ToolCallsOfTrace(entries) = dispatched

\* Two tool calls of two chunks have been dispatched, a message entry
\* between their entries, and processStream has returned.
C10_Witness ==
    /\ spc = "returned"
    /\ Len(dispatched) = 2
    /\ \E i, j, k \in DOMAIN entries :
         /\ i < j /\ j < k
         /\ entries[i].type = "tool_call"
         /\ entries[j].type = "message"
         /\ entries[k].type = "tool_call"

\* The tool_call entries of the trace that are still pending.
PendingEntries(ent) ==
    {k \in DOMAIN ent : ent[k].type = "tool_call" /\ ent[k].status = "pending"}

\* C11: a tool_call entry is appended pending and without output; it is
\* settled to success or error once, before a later tool call is dispatched
\* and before a later chunk is processed. So at most one entry is pending,
\* it is the last entry and the one awaited; an entry that is settled never
\* changes again; none is pending when processStream has returned.
C11_SettledOnce ==
    /\ [](/\ Cardinality(PendingEntries(entries)) <= 1
          /\ \A k \in PendingEntries(entries) :
               spc = "awaitTool" /\ k = toolEntry /\ k = Len(entries)
          /\ spc = "returned" => PendingEntries(entries) = {})
    /\ [][/\ Len(entries') >= Len(entries)
          /\ \A k \in DOMAIN entries :
               entries[k].type = "tool_call" =>
                 IF entries[k].status = "pending"
                 THEN /\ entries'[k].status \in {"success", "error"}
                      /\ entries'[k].type = "tool_call"
                      /\ entries'[k].toolName = entries[k].toolName
                      /\ entries'[k].input = entries[k].input
                 ELSE entries'[k] = entries[k]
          /\ \A k \in DOMAIN entries' \ DOMAIN entries :
               entries'[k].type = "tool_call" =>
                 entries'[k].status = "pending" /\ entries'[k].output = Undefined
          /\ Len(dispatched') > Len(dispatched) \/ chunksSeen' > chunksSeen =>
               PendingEntries(entries') \subseteq DOMAIN entries' \ DOMAIN entries]_vars

\* processStream has returned after two tool calls, one settled as success
\* and one as error.
C11_Witness ==
    /\ spc = "returned"
    /\ Len(dispatched) = 2
    /\ \E i, j \in DOMAIN entries :
         /\ entries[i].type = "tool_call" /\ entries[i].status = "success"
         /\ entries[j].type = "tool_call" /\ entries[j].status = "error"

\* C12 as claimed: when the invocation of a tool call met a fault, the
\* entry of the call is settled with status error and the text of the
\* fault as its output.
C12_FaultRecorded ==
    lastFault.message # Undefined =>
        /\ entries[lastFault.entry].status = "error"
        /\ entries[lastFault.entry].output = lastFault.message

\* ------------------------------------------------------------------------
\* Properties of validateToolInput and ToolExecutor
\* ------------------------------------------------------------------------

\* The input does not pass the schema: validateToolInput does not report it
\* valid.
FailsSchema(input, schema) ==
    LET checked == validateToolInput(input, schema)
    IN "valid" \notin DOMAIN checked \/ ~checked.valid

\* C17 as claimed: execute resolves to the unknown-tool failure when no
\* handler is bound to the name; else to a failure that lists the validation
\* errors when the input does not pass the schema of the handler; else to a
\* failure with the stringified fault when the executor throws; else to a
\* success with what the executor returned.
C17_ResultByCases ==
    toolOp.name = "execute" =>
        IF toolCall.name \notin DOMAIN handlers
        THEN toolOutcome = [success |-> FALSE, error |-> <<"Unknown tool: ", toolCall.name>>]
        ELSE IF FailsSchema(toolCall.input, handlers[toolCall.name].schema)
        THEN LET checked == validateToolInput(toolCall.input, handlers[toolCall.name].schema)
             IN /\ "success" \in DOMAIN toolOutcome
                /\ ~toolOutcome.success
                /\ "error" \in DOMAIN toolOutcome
                /\ "errors" \in DOMAIN checked =>
                     toolOutcome.error = join(checked.errors, ", ")
        ELSE IF executorRuns # <<>> /\ executorRuns[1].threw
        THEN toolOutcome = [success |-> FALSE, error |-> String(Fault)]
        ELSE toolOutcome = [success |-> TRUE,
                            data |-> returnOf(handlers[toolCall.name].executor,
                                              toolCall.input)]

\* C18: execute invokes an executor at most once, and only the executor of
\* the handler bound to the name of the call, with the input of the call,
\* after that input passed the schema of that handler; registerHandler binds
\* the name to the handler it is given and leaves the other names alone, so
\* the handler used is the one registered last.
C18_ExecutorGuarded ==
    /\ [](toolOp.name = "execute" =>
            /\ Len(executorRuns) <= 1
            /\ executorRuns # <<>> =>
                 /\ toolCall.name \in DOMAIN handlers
                 /\ ~FailsSchema(toolCall.input, handlers[toolCall.name].schema)
                 /\ executorRuns[1].executor = handlers[toolCall.name].executor
                 /\ executorRuns[1].input = toolCall.input)
    /\ [](toolOp.name = "registerHandler" =>
            /\ toolOp.tool \in DOMAIN handlers
            /\ handlers[toolOp.tool] = toolOp.handler)
    /\ [][toolOp'.name = "registerHandler" =>
            \A n \in RegisteredNames \ {toolOp'.tool} :
              /\ n \in DOMAIN handlers' <=> n \in DOMAIN handlers
              /\ n \in DOMAIN handlers => handlers'[n] = handlers[n]]_vars

\* execute has run the executor e2 of the handler bound to double, once, on
\* an input with the two required fields; another handler is bound to test.
C18_Witness ==
    /\ toolOp.name = "execute"
    /\ DOMAIN handlers = RegisteredNames
    /\ handlers["double"].executor = "e2"
    /\ handlers["test"].executor = "e1"
    /\ "required" \in DOMAIN handlers["double"].schema
    /\ Len(executorRuns) = 1
    /\ executorRuns[1].executor = "e2"
    /\ DOMAIN toolCall.input.fields = {"name", "count"}

\* C19 as claimed: execute never rejects; whatever the name, the input and
\* the executor, it resolves to a result, and an input that does not pass
\* the schema is reported as a failure with an error.
C19_NeverRejects ==
    toolOp.name = "execute" =>
        /\ "thrown" \notin DOMAIN toolOutcome
        /\ "success" \in DOMAIN toolOutcome
        /\ toolCall.name \in DOMAIN handlers
             /\ FailsSchema(toolCall.input, handlers[toolCall.name].schema) =>
               ~toolOutcome.success /\ "error" \in DOMAIN toolOutcome

\* The types validateToolInput checks, and how its messages name them.
CheckedTypes == {"string", "number", "array", "object"}

Named(type) ==
    CASE type = "string" -> "a string"
      [] type = "number" -> "a number"
      [] type = "array" -> "an array"
      [] type = "object" -> "an object"

\* The type the schema declares for a field, Undefined when it declares
\* none of the checked types.
DeclaredType(schema, key) ==
    IF /\ "properties" \in DOMAIN schema
       /\ key \in DOMAIN schema.properties
       /\ "type" \in DOMAIN schema.properties[key]
       /\ schema.properties[key].type \in CheckedTypes
    THEN schema.properties[key].type
    ELSE Undefined

\* The required fields the input lacks.
MissingFields(input, schema) ==
    IF "required" \in DOMAIN schema
    THEN {schema.required[k] : k \in DOMAIN schema.required} \ DOMAIN input.fields
    ELSE {}

\* The fields of the input whose value is not of the kind declared for them.
MistypedFields(input, schema) ==
    {key \in DOMAIN input.fields :
        /\ DeclaredType(schema, key) # Undefined
        /\ input.fields[key] # DeclaredType(schema, key)}

\* C20 as claimed: for an input object, validateToolInput reports valid
\* exactly when no required field is missing and every field with a declared
\* type string, number, array or object holds a value of that kind; its
\* errors are one for every missing required field and one for every
\* mistyped field, and none for a field the schema does not declare.
C20_ValidExactlyWhen ==
    validation # NotCalled /\ givenInput.kind = "object" =>
        /\ "valid" \in DOMAIN validation
        /\ validation.valid <=>
             /\ MissingFields(givenInput, givenSchema) = {}
             /\ MistypedFields(givenInput, givenSchema) = {}
        /\ {validation.errors[k] : k \in DOMAIN validation.errors} =
             {MissingRequired(f) : f \in MissingFields(givenInput, givenSchema)}
             \cup {MustBe(key, Named(DeclaredType(givenSchema, key))) :
                     key \in MistypedFields(givenInput, givenSchema)}

\* ------------------------------------------------------------------------
\* Properties of the vector store
\* ------------------------------------------------------------------------

\* _documents.get(id): the document stored under an id, if any.
StoredUnder(id) ==
    IF documentsHas(documents, id)
    THEN documents[CHOOSE j \in DOMAIN documents : documents[j].id = id]
    ELSE NoDocument

C22_DimensionsKept ==
    /\ \A j \in DOMAIN documents : Len(documents[j].embedding) = dimensions
    /\ (storeOp.name = "upsert" /\ storeOp.mismatch) => storeOp.thrown # NoError
    /\ (storeOp.name = "search" /\ Len(storeOp.query) # dimensions)
         => (storeOp.thrown # NoError /\ searchResults = NotCalled)

\* An upsert was rejected by a store that holds a document.
C22_Witness ==
    /\ storeOp.name = "upsert"
    /\ storeOp.mismatch
    /\ storeOp.thrown = MismatchError("Embedding", 2, 1)
    /\ count = 1

\* A filter declares a field when it is given and has the field.
Declares(filter, f) == filter # NoFilter /\ f \in DOMAIN filter

\* The document's metadata equals the filter on every field it declares.
MatchesFilter(filter, doc) ==
    /\ Declares(filter, "source") => doc.metadata.source = filter.source
    /\ Declares(filter, "nodeId") => nodeIdOf(doc.metadata) = filter.nodeId

\* C23: for topK >= 0 search returns at most topK results, each a stored
\* document with its score whose metadata equals the filter on every field
\* the filter declares, in order of non-increasing score, and no stored
\* document that matches the filter and is left out scores higher than a
\* returned one; search leaves the store as it is.
C23_SearchResults ==
    /\ [](searchResults # NotCalled =>
            LET found == searchResults.value
                returned == {found[j].document : j \in DOMAIN found}
            IN /\ Len(found) <= storeOp.topK
               /\ \A j \in DOMAIN found :
                    /\ includes(documents, found[j].document)
                    /\ found[j].score = cosineSimilarity(storeOp.query, found[j].document.embedding)
                    /\ MatchesFilter(storeOp.filter, found[j].document)
               /\ \A i, j \in DOMAIN found : i < j => minus(found[i].score, found[j].score) >= 0
               /\ \A d \in DOMAIN documents :
                    (MatchesFilter(storeOp.filter, documents[d]) /\ documents[d] \notin returned)
                    => \A j \in DOMAIN found :
                         minus(cosineSimilarity(storeOp.query, documents[d].embedding),
                               found[j].score) <= 0)
    /\ [][storeOp'.name = "search" => documents' = documents]_vars

\* ------------------------------------------------------------------------
\* Properties of the context assembler
\* ------------------------------------------------------------------------

\* The last k messages of the conversation.
LastOf(history, k) == SubSeq(history, Len(history) - k + 1, Len(history))

\* The messages returned between the first and the last.
Between == SubSeq(messages, 2, Len(messages) - 1)

\* C24: buildContext returns a list whose first message is the system
\* message, with the custom prompt if one was supplied and the fixed default
\* otherwise, whose last message is a user message whose final text part is
\* the query, and whose messages in between are history messages in their
\* chronological order: the latest ones of the conversation.
C24_MessageOrder ==
    cpc = "returned" =>
        /\ Len(messages) >= 2
        /\ messages[1] = [role |-> "system",
                          content |-> <<TextPart(IF "systemPrompt" \in DOMAIN ctxCall
                                                 THEN ctxCall.systemPrompt
                                                 ELSE defaultSystemPrompt)>>]
        /\ LET last == messages[Len(messages)]
           IN /\ last.role = "user"
              /\ last.content # <<>>
              /\ last.content[Len(last.content)] = TextPart(ctxCall.query)
        /\ Len(Between) <= Len(ctxCall.conversationHistory)
        /\ Between = LastOf(ctxCall.conversationHistory, Len(Between))

\* A call with a custom prompt has returned two history messages that
\* differ, behind the system message and before the user message.
C24_Witness ==
    /\ cpc = "returned"
    /\ "systemPrompt" \in DOMAIN ctxCall
    /\ ctxCall.systemPrompt # <<>>
    /\ Len(messages) = 4
    /\ messages[2] # messages[3]

\* The retrieved-knowledge text of the returned user message: what follows
\* "Relevant context:\n" in the part that starts with it, "" without one.
KnowledgeText ==
    LET parts == messages[Len(messages)].content
        rag == {j \in DOMAIN parts : SubSeq(parts[j].text, 1, 1) = RagPrefix}
    IN IF rag = {} THEN <<>>
       ELSE LET at == CHOOSE j \in rag : TRUE
            IN SubSeq(parts[at].text, 2, Len(parts[at].text))

\* The token estimates of the first i ranked chunks, summed.
RECURSIVE RunningSum(_, _)
RunningSum(ranked, i) ==
    IF i = 0 THEN 0 ELSE RunningSum(ranked, i - 1) + estimateTokens(ranked[i])

\* min(4000, floor(0.4 * (tokenBudget - system tokens - scene tokens)))
SubBudget ==
    LET remaining == ctxCall.tokenBudget - estimateTokens(messages[1].content[1].text)
                     - estimateTokens(ctxCall.sceneContext)
        share == (4 * remaining) \div 10
    IN IF share < 4000 THEN share ELSE 4000

\* C25: the retrieved-knowledge chunks buildContext includes are a prefix of
\* the ranked search results: chunks are taken in rank order while the
\* running sum of their token estimates stays within the sub-budget, the
\* selection stops at the first chunk that would exceed it, and nothing
\* ranked lower is included.
C25_KnowledgePrefix ==
    (cpc = "returned" /\ ragFeed.search = "resolved") =>
        \E k \in 0 .. Len(ragFeed.ranked) :
            /\ KnowledgeText = join(SubSeq(ragFeed.ranked, 1, k), Separator)
            /\ \A i \in 1 .. k : RunningSum(ragFeed.ranked, i) <= SubBudget
            /\ k = Len(ragFeed.ranked) \/ RunningSum(ragFeed.ranked, k + 1) > SubBudget

\* Of two ranked chunks the first was included and the second, which would
\* have exceeded the sub-budget of 4000, was not.
C25_Witness ==
    /\ cpc = "returned"
    /\ ragFeed.search = "resolved"
    /\ Len(ragFeed.ranked) = 2
    /\ SubBudget = 4000
    /\ KnowledgeText = ragFeed.ranked[1]
    /\ RunningSum(ragFeed.ranked, 2) > 4000

\* The per-message token estimates of the last k messages, summed.
RECURSIVE HistorySum(_, _)
HistorySum(history, k) ==
    IF k = 0 THEN 0
    ELSE HistorySum(history, k - 1) + estimateTokens(textOf(history[Len(history) - k + 1]))

\* tokenBudget - (system + scene + retrieved-knowledge tokens) - query
\* tokens - 500, by the texts of the call and of the returned messages.
HistoryBudget ==
    ctxCall.tokenBudget
    - (estimateTokens(messages[1].content[1].text) + estimateTokens(ctxCall.sceneContext)
       + estimateTokens(KnowledgeText))
    - estimateTokens(ctxCall.query) - 500

\* C26: the history messages buildContext includes are the most recent
\* messages of the conversation, in their order, whose per-message token
\* estimates sum to no more than tokenBudget - (system + scene +
\* retrieved-knowledge tokens) - query tokens - 500; the selection stops at
\* the first message, from the most recent back, that would exceed that
\* budget, and no history is included when that budget is zero or negative.
C26_HistorySuffix ==
    cpc = "returned" =>
        LET history == ctxCall.conversationHistory
            k == Len(Between)
        IN /\ k <= Len(history)
           /\ Between = LastOf(history, k)
           /\ IF HistoryBudget <= 0
              THEN k = 0
              ELSE /\ HistorySum(history, k) <= HistoryBudget
                   /\ k = Len(history) \/ HistorySum(history, k + 1) > HistoryBudget

\* With knowledge text included, the latest message was taken and the one
\* before it, which would have exceeded the budget, was not.
C26_Witness ==
    /\ cpc = "returned"
    /\ KnowledgeText # <<>>
    /\ HistoryBudget > 0
    /\ Len(Between) = 1
    /\ Len(ctxCall.conversationHistory) = 2
    /\ HistorySum(ctxCall.conversationHistory, 1) > 0

\* tokenBudget - (system + scene tokens) - query tokens - 500: the history
\* budget when no knowledge was retrieved.
BudgetWithoutKnowledge ==
    ctxCall.tokenBudget
    - (estimateTokens(messages[1].content[1].text) + estimateTokens(ctxCall.sceneContext))
    - estimateTokens(ctxCall.query) - 500

\* C27: when the embedding call or the similarity search fails, buildContext
\* still returns: the system message, the history selected under the budget
\* computed as if no knowledge had been retrieved, and the final user
\* message with the scene text and the query and no retrieved-knowledge part.
C27_KnowledgeFailureSkipped ==
    (ragFeed.embedText = "rejected" \/ ragFeed.search = "rejected") =>
        /\ cpc = "returned"
        /\ LET history == ctxCall.conversationHistory
               k == Len(Between)
               last == messages[Len(messages)]
           IN /\ messages[1].role = "system"
              /\ k <= Len(history)
              /\ Between = LastOf(history, k)
              /\ IF BudgetWithoutKnowledge <= 0
                 THEN k = 0
                 ELSE /\ HistorySum(history, k) <= BudgetWithoutKnowledge
                      /\ k = Len(history)
                         \/ HistorySum(history, k + 1) > BudgetWithoutKnowledge
              /\ last.role = "user"
              /\ last.content =
                    (IF ctxCall.sceneContext # <<>>
                     THEN <<TextPart(ScenePrefix \o ctxCall.sceneContext)>> ELSE <<>>)
                    \o <<TextPart(ctxCall.query)>>

\* The search failed after the embedding was there; the call returned scene
\* text, query and a history message.
C27_Witness ==
    /\ ragFeed.embedText = "resolved"
    /\ ragFeed.search = "rejected"
    /\ cpc = "returned"
    /\ Len(Between) >= 1
    /\ Len(messages[Len(messages)].content) = 2

\* ------------------------------------------------------------------------
\* Properties of the step statuses under retry and cancellation
\* ------------------------------------------------------------------------

\* C29: a step has status failed only after its first attempt and its retry
\* have both failed, and once a step has status failed its status never
\* changes again: a step that succeeds on retry goes from active to done and
\* nobody who watches the plan sees it go from failed to done.
C29_FailedIsFinal ==
    /\ [](\A p \in DOMAIN steps :
            steps[p].status = "failed" =>
                \E j \in DOMAIN retryLog :
                    /\ retryLog[j].stepIndex = steps[p].index
                    /\ retryLog[j].status = "failure")
    /\ [][\A p \in DOMAIN steps :
            steps[p].status = "failed" => steps'[p].status = "failed"]_vars

\* C30: when the cancellation signal is set while a step is executing, the
\* step still runs to its end, with its one retry if the first attempt
\* fails, and ends done or failed with a StepResult of it in results; the
\* signal is looked at only before the next step, which is then not started.
C30_StepRunsToItsEnd ==
    /\ [](pc = "returned" =>
            \A i \in 1 .. Len(Attempted) :
                /\ steps[sortedSteps[i]].status \in {"done", "failed"}
                /\ i <= Len(results)
                /\ results[i].stepIndex = steps[sortedSteps[i]].index)
    /\ [][(aborted /\ pc \in {"executing", "retrying"}) =>
            \/ /\ pc = "executing"
               /\ pc' = "retrying"
               /\ results'[Len(results')].status = "failure"
            \/ /\ pc' = "returned"
               /\ pc = "executing" => results'[Len(results')].status = "success"
               /\ steps'[sortedSteps[pos]].status \in {"done", "failed"}
               /\ \E j \in DOMAIN results' :
                    results'[j].stepIndex = steps[sortedSteps[pos]].index
               /\ CallsOf(chatLog', "executeStep") = Attempted
               /\ \A p \in DOMAIN steps' : steps'[p].status # "active"]_vars

\* The signal was set while the first of two steps was executing: the step was
\* retried and is done, and the second step is still pending.
C30_Witness ==
    /\ aborted
    /\ pc = "returned"
    /\ Len(sortedSteps) >= 2
    /\ Len(results) = 1
    /\ Len(retryLog) = 1
    /\ retryLog[1].status = "success"
    /\ steps[sortedSteps[1]].status = "done"
    /\ steps[sortedSteps[2]].status = "pending"

\* ------------------------------------------------------------------------
\* Properties of the scheduler: one step at a time, failure, cycles, order
\* ------------------------------------------------------------------------

ActiveSteps == {p \in DOMAIN steps : steps[p].status = "active"}

\* C31: during executePlan at most one step is active at any time, the model
\* call of a step begins only when every attempt of the step started before
\* it has finished and left its result, and no step is active when
\* executePlan has returned.
C31_OneStepAtATime ==
    /\ [](/\ Cardinality(ActiveSteps) <= 1
          /\ Len(Attempted) <= Len(results) + 1
          /\ pc = "returned" => ActiveSteps = {})
    /\ [][Len(CallsOf(chatLog', "executeStep")) > Len(Attempted) =>
            /\ pc' = "executing"
            /\ Len(results') = Len(Attempted)
            /\ ActiveSteps \subseteq {sortedSteps'[i] : i \in {Len(Attempted)} \ {0}}
            /\ \A p \in DOMAIN steps' :
                 steps'[p].status = "active" => p = sortedSteps'[Len(Attempted) + 1]]_vars

\* The second step of a plan is active, the first is done and has its
\* result.
C31_Witness ==
    /\ pc = "executing"
    /\ Len(Attempted) = 2
    /\ Len(results) = 1
    /\ steps[sortedSteps[1]].status = "done"
    /\ ActiveSteps = {sortedSteps[2]}

\* The array position of the step whose retry has just failed: the run has
\* returned from the break of line 39.
StoppedByFailure ==
    /\ pc = "returned"
    /\ retryLog # <<>>
    /\ retryLog[Len(retryLog)].status = "failure"

\* C32: after a step has failed on both its attempts executePlan attempts no
\* further step: the calls of executeStep end with the failed step, every
\* later step of the order that does not transitively depend on it is
\* pending without a StepResult, every transitive dependent is skipped, and
\* the last returned result is a failure of the failed step.
C32_StopsAfterFailure ==
    StoppedByFailure =>
        LET f == sortedSteps[pos]
        IN /\ steps[f].status = "failed"
           /\ retryLog[Len(retryLog)].stepIndex = steps[f].index
           /\ Len(Attempted) = pos
           /\ Attempted[pos] = steps[f].index
           /\ results # <<>>
           /\ results[Len(results)].stepIndex = steps[f].index
           /\ results[Len(results)].status = "failure"
           /\ \A k \in DOMAIN sortedSteps :
                (k > pos /\ ~DependsTransitively(steps, sortedSteps[k], f)) =>
                    /\ steps[sortedSteps[k]].status = "pending"
                    /\ \A j \in DOMAIN results :
                         results[j].stepIndex # steps[sortedSteps[k]].index
           /\ \A d \in DOMAIN steps :
                DependsTransitively(steps, d, f) => steps[d].status = "skipped"

\* The first step of three failed twice; one later step depends on it and
\* one does not.
C32_Witness ==
    /\ StoppedByFailure
    /\ pos = 1
    /\ Len(sortedSteps) = 3
    /\ \E d, k \in DOMAIN steps :
         /\ DependsTransitively(steps, d, sortedSteps[1])
         /\ steps[d].status = "skipped"
         /\ k # sortedSteps[1]
         /\ ~DependsTransitively(steps, k, sortedSteps[1])
         /\ steps[k].status = "pending"

\* The step at position p is on a dependency cycle, or depends transitively
\* on a step that is.
OnCycle(st, p) == DependsTransitively(st, p, p)

OnOrAfterCycle(st, p) ==
    \/ OnCycle(st, p)
    \/ \E q \in DOMAIN st : OnCycle(st, q) /\ DependsTransitively(st, p, q)

\* C33: for a plan with a dependency cycle (unique indices, dependencies on
\* present steps) topologicalSort and skipDependents return; the order holds
\* exactly the steps that are neither on a cycle nor downstream of one, each
\* once and after its dependencies, and executeStep is never called for an
\* excluded step.
C33_CycleExcluded ==
    (pc # "idle" /\ UniqueIndices(steps) /\ DependenciesPresent(steps) /\ ~Acyclic(steps)) =>
        /\ \A p \in DOMAIN steps :
             CountIn(sortedSteps, p) = IF OnOrAfterCycle(steps, p) THEN 0 ELSE 1
        /\ \A k \in DOMAIN sortedSteps : sortedSteps[k] \in DOMAIN steps
        /\ \A p, q \in DOMAIN steps :
             (RankIn(sortedSteps, p) > 0 /\ DependsDirectly(steps, p, q)) =>
                 /\ RankIn(sortedSteps, q) > 0
                 /\ RankIn(sortedSteps, q) < RankIn(sortedSteps, p)
        /\ \A p \in DOMAIN steps :
             OnOrAfterCycle(steps, p) =>
                 /\ CountIn(Attempted, steps[p].index) = 0
                 /\ CountIn(Retried, steps[p].index) = 0
                 /\ steps[p].status \in {"pending", "skipped"}
                 /\ \A j \in DOMAIN results : results[j].stepIndex # steps[p].index

\* The one step outside a cycle of two failed twice; skipDependents went
\* round the cycle, which depends on it, and returned.
C33_Witness ==
    /\ StoppedByFailure
    /\ Len(steps) = 3
    /\ Len(sortedSteps) = 1
    /\ \E p, q \in DOMAIN steps :
         /\ p # q
         /\ DependsDirectly(steps, p, q) /\ DependsDirectly(steps, q, p)
         /\ DependsDirectly(steps, p, sortedSteps[1])
         /\ steps[p].status = "skipped" /\ steps[q].status = "skipped"

\* The rank in the order at which the step at position p becomes eligible:
\* 0 when it has no dependencies, or the rank of the last of them.
RECURSIVE MaxRank(_, _, _)
MaxRank(order, st, deps) ==
    IF deps = <<>> THEN 0
    ELSE LET r == RankIn(order, stepMapGet(st, Head(deps)))
             m == MaxRank(order, st, Tail(deps))
         IN IF r > m THEN r ELSE m

EligibleAt(order, st, p) == MaxRank(order, st, st[p].dependsOn)

\* C34: topologicalSort serves the steps in the order in which they become
\* eligible, and steps that become eligible at the same time (without
\* dependencies, or freed by the same step) come out by ascending step
\* index, whatever the order of the steps array.
C34_TiesByIndex ==
    (pc # "idle" /\ ValidPlan(steps)) =>
        \A p, q \in DOMAIN steps :
            /\ EligibleAt(sortedSteps, steps, p) < EligibleAt(sortedSteps, steps, q)
                 => RankIn(sortedSteps, p) < RankIn(sortedSteps, q)
            /\ (/\ EligibleAt(sortedSteps, steps, p) = EligibleAt(sortedSteps, steps, q)
                /\ steps[p].index < steps[q].index)
                 => RankIn(sortedSteps, p) < RankIn(sortedSteps, q)

\* No retry has failed: every step attempted so far succeeded on its first
\* attempt or on its retry, or is still being attempted.
NoRetryFailed == \A j \in DOMAIN retryLog : retryLog[j].status = "success"

\* C35: executePlan on a plan with unique indices, present dependencies and
\* no cycle, whose steps all start pending, returns; and when no retry has
\* failed and the signal was never set, it returns with every step done and
\* exactly one result per step, a success, in the order of topologicalSort.
C35_AllDone ==
    /\ []((pc = "returned" /\ ValidPlan(steps) /\ ~aborted /\ NoRetryFailed) =>
            /\ \A p \in DOMAIN steps : steps[p].status = "done"
            /\ Len(results) = Len(steps)
            /\ \A k \in DOMAIN results :
                 /\ results[k].status = "success"
                 /\ results[k].stepIndex = steps[sortedSteps[k]].index
            /\ \A p \in DOMAIN steps :
                 Cardinality({k \in DOMAIN results : results[k].stepIndex = steps[p].index}) = 1)
    /\ (pc # "idle" /\ ValidPlan(steps)) ~> (pc = "returned")

\* A plan of three steps in a chain has returned all done, one step of it on
\* its retry.
C35_Witness ==
    /\ pc = "returned" /\ ValidPlan(steps) /\ ~aborted /\ NoRetryFailed
    /\ Len(steps) = 3 /\ Len(results) = 3
    /\ Len(retryLog) = 1
    /\ \A p \in DOMAIN steps : steps[p].status = "done"
    /\ \E p, q, r \in DOMAIN steps :
         DependsDirectly(steps, p, q) /\ DependsDirectly(steps, q, r)

\* ------------------------------------------------------------------------
\* Properties of the plan the state machine carries and of what its
\* listeners are told
\* ------------------------------------------------------------------------

\* C36: the plan of an executing state is the plan of the awaiting_approval
\* state it was entered from, and advanceStep changes currentStepIndex only,
\* never the plan.
C36_ApprovedPlanExecuted ==
    [][/\ (wfState.phase = "awaiting_approval" /\ wfState'.phase = "executing")
            => wfState'.plan = wfState.plan
       /\ (wfState.phase = "executing" /\ lastOp'.name = "advanceStep" /\ lastOp'.accepted)
            => /\ wfState'.phase = "executing"
               /\ wfState'.plan = wfState.plan]_vars

\* ------------------------------------------------------------------------
\* WorkflowStateMachine.transition with a listener that calls back into the
\* machine: listener(newState) runs inside the for loop of transition, so a
\* reset() it makes runs a whole nested transition before the loop goes on.
\* ------------------------------------------------------------------------

\* A listener that calls reset() when it is told of a state other than idle.
Resetter == "resetter"

AnyListeners == Listeners \cup {Resetter}

\* acc: _state, the number of calls made on the machine, and the listener
\* invocations so far.
RECURSIVE notifyLoop(_, _, _, _)
RECURSIVE nestedTransition(_, _, _)

\* The for loop of transition from array position k on.
notifyLoop(array, k, newState, acc) ==
    IF k > Len(array) THEN acc
    ELSE LET told == [acc EXCEPT !.log = Append(@, [listener |-> array[k],
                                                     state |-> newState.id])]
             after == IF array[k] = Resetter /\ newState.phase # "idle"
                      THEN nestedTransition(array,
                                            [phase |-> "idle", id |-> told.calls + 1],
                                            [told EXCEPT !.calls = @ + 1])
                      ELSE told
         IN notifyLoop(array, k + 1, newState, after)

\* transition(newState): assign _state, then the for loop.
nestedTransition(array, newState, acc) ==
    notifyLoop(array, 1, newState, [acc EXCEPT !.state = newState])

\* A public method called from outside: assertPhase(expected) when the
\* method has one, then transition(newState).
calledFromOutside(name, expected, newState) ==
    /\ wfCalls < MaxCalls
    /\ lastArgs' = NoArgs
    /\ IF expected # "" /\ assertPhase(expected) # NoError
       THEN Throws(name, assertPhase(expected)) /\ wfCalls' = wfCalls + 1
       ELSE LET r == nestedTransition(listeners, newState,
                        [state |-> wfState, calls |-> wfCalls + 1, log |-> <<>>])
            IN /\ wfState' = r.state
               /\ wfCalls' = r.calls
               /\ delivered' = r.log
               /\ invoked' = [l \in Listeners |->
                                 atMostTwo(invoked[l]
                                           + Cardinality({k \in DOMAIN r.log : r.log[k].listener = l}))]
               /\ listeners' = listeners
               /\ Returns(name)

startAnalysisNested ==
    \E userPrompt \in Prompts :
        calledFromOutside("startAnalysis", "idle",
            [phase |-> "analyzing", id |-> NewId, userPrompt |-> userPrompt])

setErrorNested ==
    \E error \in ErrorTexts :
        calledFromOutside("setError", "",
            [phase |-> "error", id |-> NewId, error |-> error, recoverable |-> TRUE])

resetNested == calledFromOutside("reset", "", [phase |-> "idle", id |-> NewId])

\* onStateChange(listener) with any of the listeners.
onStateChangeNested ==
    /\ Len(listeners) < MaxListeners
    /\ \E listener \in AnyListeners : listeners' = Append(listeners, listener)
    /\ lastArgs' = NoArgs
    /\ UNCHANGED <<wfState, delivered, wfError, lastOp, wfCalls, invoked>>

\* The handle onStateChange returned for any of the listeners.
unsubscribeNested ==
    /\ \E listener \in AnyListeners :
         /\ includes(listeners, listener)
         /\ listeners' = filterOut(listeners, listener)
         /\ lastArgs' = [handle |-> listener]
    /\ UNCHANGED <<wfState, delivered, wfError, lastOp, wfCalls, invoked>>

NestedNext ==
    \/ startAnalysisNested /\ UNCHANGED <<execVars, streamVars, valVars, toolVars, storeVars, ctxVars, chunkVars>>
    \/ setErrorNested /\ UNCHANGED <<execVars, streamVars, valVars, toolVars, storeVars, ctxVars, chunkVars>>
    \/ resetNested /\ UNCHANGED <<execVars, streamVars, valVars, toolVars, storeVars, ctxVars, chunkVars>>
    \/ onStateChangeNested /\ UNCHANGED <<execVars, streamVars, valVars, toolVars, storeVars, ctxVars, chunkVars>>
    \/ unsubscribeNested /\ UNCHANGED <<execVars, streamVars, valVars, toolVars, storeVars, ctxVars, chunkVars>>

SpecNested == WfInit /\ [][NestedNext]_vars

\* The states told to listener l by the latest call, in the order told.
RECURSIVE ToldTo(_, _)
ToldTo(del, l) ==
    IF del = <<>> THEN <<>>
    ELSE (IF Head(del).listener = l THEN <<Head(del).state>> ELSE <<>>) \o ToldTo(Tail(del), l)

\* C37: when a call on the machine has returned, every registered listener
\* it notified was told last of the machine's current state, and was told
\* of the states in the order in which the transitions took effect (the
\* state of a later transition has the larger id), also when a listener
\* calls reset from inside its notification.
C37_ListenersEndCurrent ==
    [][(wfCalls' > wfCalls /\ lastOp'.accepted) =>
          \A l \in AnyListeners :
              LET told == ToldTo(delivered', l)
              IN (includes(listeners', l) /\ told # <<>>) =>
                     /\ told[Len(told)] = wfState'.id
                     /\ \A j, k \in DOMAIN told : j < k => told[j] <= told[k]]_vars

\* ------------------------------------------------------------------------
\* Properties of a rejected upsert, of the knowledge tokens and of chunkText
\* ------------------------------------------------------------------------

\* C38: an upsert that is rejected for a dimension mismatch leaves the store
\* as it was: no document of the call is stored or overwritten, and count
\* and every stored document are as before the call.
C38_RejectedUpsertStoresNothing ==
    [][(storeOp'.name = "upsert" /\ storeOp'.thrown # NoError) =>
          /\ documents' = documents
          /\ Len(documents') = Len(documents)]_vars

\* C39: the token estimate of the retrieved-knowledge text of the returned
\* user message (the selected chunks joined with their separators), which
\* is what buildContext adds to usedTokens, never exceeds the sub-budget.
C39_KnowledgeWithinSubBudget ==
    (cpc = "returned" /\ ragFeed.search = "resolved") =>
        /\ KnowledgeText = ragContext
        /\ usedTokens = estimateTokens(messages[1].content[1].text)
                        + estimateTokens(ctxCall.sceneContext) + estimateTokens(KnowledgeText)
        /\ estimateTokens(KnowledgeText) <= SubBudget

\* ------------------------------------------------------------------------
\* chunkText(text, options)
\* A text is the sequence of its characters, each a piece of length 1: a
\* letter, a full stop (the sentence end of [.!?]) or a line feed (the white
\* space of \s and of trim).
\* ------------------------------------------------------------------------
MaxTextLen == 6
MaxMaxTokens == 2
MaxOverlap == 2
MaxPushed == 4

Letter == [text |-> "a", length |-> 1]
FullStop == [text |-> ".", length |-> 1]
LineFeed == [text |-> "\n", length |-> 1]

Characters == {Letter, FullStop, LineFeed}

Texts == UNION {[1 .. n -> Characters] : n \in 0 .. MaxTextLen}

ChunkOptions == [maxTokens : 1 .. MaxMaxTokens, overlap : 0 .. MaxOverlap]

\* The class of a character for the regular expressions.
classOf(c) == IF c = LineFeed THEN "space" ELSE IF c = FullStop THEN "end" ELSE "other"

\* Whether the character at p is matched by a class of the expressions:
\* \s, [.!?] or [^.!?].
matches(text, p, class) ==
    IF class = "notEnd" THEN classOf(text[p]) # "end" ELSE classOf(text[p]) = class

\* The last position of the longest run of the class that starts at p; p - 1
\* when there is none.
RECURSIVE runEnd(_, _, _)
runEnd(text, p, class) ==
    IF p > Len(text) \/ ~matches(text, p, class) THEN p - 1
    ELSE runEnd(text, p + 1, class)

\* text.split(/\n\s*\n/) from position p, the piece under way starting at
\* start: a run of two or more line feeds separates.
RECURSIVE splitFrom(_, _, _)
splitFrom(text, p, start) ==
    IF p > Len(text) THEN <<SubSeq(text, start, Len(text))>>
    ELSE LET e == runEnd(text, p, "space")
         IN IF e >= p + 1
            THEN <<SubSeq(text, start, p - 1)>> \o splitFrom(text, e + 1, e + 1)
            ELSE splitFrom(text, (IF e >= p THEN e ELSE p) + 1, start)

\* String.prototype.trim
RECURSIVE trimEnd(_)
trimEnd(text) ==
    IF text # <<>> /\ classOf(text[Len(text)]) = "space"
    THEN trimEnd(SubSeq(text, 1, Len(text) - 1))
    ELSE text

trim(text) == trimEnd(SubSeq(text, runEnd(text, 1, "space") + 1, Len(text)))

\* trimmed.match(/[^.!?]+[.!?]+\s*/g) from position p.
RECURSIVE matchFrom(_, _)
matchFrom(text, p) ==
    IF p > Len(text) THEN <<>>
    ELSE IF matches(text, p, "end") THEN matchFrom(text, p + 1)
    ELSE LET a == runEnd(text, p, "notEnd")
         IN IF a = Len(text) THEN <<>>
            ELSE LET b == runEnd(text, a + 1, "end")
                     c == runEnd(text, b + 1, "space")
                 IN <<SubSeq(text, p, c)>> \o matchFrom(text, c + 1)

\* Line 46: the matches, or [trimmed] when match returns null.
sentencesOf(trimmed) ==
    IF matchFrom(trimmed, 1) = <<>> THEN <<trimmed>> ELSE matchFrom(trimmed, 1)

\* String.prototype.slice(from, to): a negative index counts from the end.
sliceChars(text, from, to) ==
    LET clamp(j) == IF j < 0
                    THEN (IF Len(text) + j < 0 THEN 0 ELSE Len(text) + j)
                    ELSE (IF j > Len(text) THEN Len(text) ELSE j)
    IN SubSeq(text, clamp(from) + 1, clamp(to))

\* Line 58: what the character loop adds to i, maxChars - overlapChars.
sliceStepOf(options) == options.maxTokens * 4 - options.overlap * 4

pushIfAny(list, text) == IF text # <<>> THEN Append(list, text) ELSE list

\* chunkText(text, options) up to the outer for loop; lines 22-31.
chunkText ==
    /\ chunkPc = "idle"
    /\ IF chunkCall.text = <<>>
       THEN chunkPc' = "returned" /\ parasLeft' = <<>>
       ELSE chunkPc' = "paragraphs" /\ parasLeft' = splitFrom(chunkCall.text, 1, 1)
    /\ currentText' = <<>>
    /\ chunkList' = <<>>
    /\ UNCHANGED <<chunkCall, sentencesLeft, sentenceChunk, sliceAt>>

\* One iteration of the outer for loop (lines 33-45 and 71-73), or its end
\* (lines 77-81).
nextParagraph ==
    /\ chunkPc = "paragraphs"
    /\ IF parasLeft = <<>>
       THEN /\ chunkList' = SelectSeq(pushIfAny(chunkList, currentText), LAMBDA c : Len(c) > 0)
            /\ chunkPc' = "returned"
            /\ UNCHANGED <<parasLeft, currentText, sentencesLeft, sentenceChunk>>
       ELSE LET trimmed == trim(Head(parasLeft))
            IN /\ parasLeft' = Tail(parasLeft)
               /\ IF trimmed = <<>>
                  THEN UNCHANGED <<chunkPc, currentText, sentencesLeft, sentenceChunk, chunkList>>
                  ELSE IF estimateTokens(currentText \o <<LineFeed, LineFeed>> \o trimmed)
                            <= chunkCall.options.maxTokens
                  THEN /\ currentText' = IF currentText # <<>>
                                         THEN currentText \o <<LineFeed, LineFeed>> \o trimmed
                                         ELSE trimmed
                       /\ UNCHANGED <<chunkPc, sentencesLeft, sentenceChunk, chunkList>>
                  ELSE /\ chunkList' = pushIfAny(chunkList, currentText)
                       /\ IF estimateTokens(trimmed) > chunkCall.options.maxTokens
                          THEN /\ sentencesLeft' = sentencesOf(trimmed)
                               /\ sentenceChunk' = <<>>
                               /\ chunkPc' = "sentences"
                               /\ UNCHANGED currentText
                          ELSE /\ currentText' = trimmed
                               /\ UNCHANGED <<chunkPc, sentencesLeft, sentenceChunk>>
    /\ UNCHANGED <<chunkCall, sliceAt>>

\* One iteration of the sentence loop (lines 49-57 and 62-64), or its end
\* (lines 67-70).
nextSentence ==
    /\ chunkPc = "sentences"
    /\ IF sentencesLeft = <<>>
       THEN /\ chunkList' = IF sentenceChunk # <<>>
                            THEN Append(chunkList, trim(sentenceChunk)) ELSE chunkList
            /\ currentText' = <<>>
            /\ chunkPc' = "paragraphs"
            /\ UNCHANGED <<sentencesLeft, sentenceChunk, sliceAt>>
       ELSE LET sentence == Head(sentencesLeft)
            IN /\ UNCHANGED currentText
               /\ IF estimateTokens(sentenceChunk \o sentence) <= chunkCall.options.maxTokens
                  THEN /\ sentenceChunk' = sentenceChunk \o sentence
                       /\ sentencesLeft' = Tail(sentencesLeft)
                       /\ UNCHANGED <<chunkPc, sliceAt, chunkList>>
                  ELSE /\ chunkList' = IF sentenceChunk # <<>>
                                       THEN Append(chunkList, trim(sentenceChunk)) ELSE chunkList
                       /\ IF Len(sentence) > chunkCall.options.maxTokens * 4
                          THEN /\ chunkPc' = "slicing"
                               /\ sliceAt' = 0
                               /\ UNCHANGED <<sentencesLeft, sentenceChunk>>
                          ELSE /\ sentenceChunk' = sentence
                               /\ sentencesLeft' = Tail(sentencesLeft)
                               /\ UNCHANGED <<chunkPc, sliceAt>>
    /\ UNCHANGED <<chunkCall, parasLeft>>

\* One iteration of the character loop (lines 58-60), or its end (line 61).
\* The array chunks is followed up to MaxPushed elements.
nextSlice ==
    /\ chunkPc = "slicing"
    /\ LET sentence == Head(sentencesLeft)
       IN IF sliceAt < Len(sentence)
          THEN /\ Len(chunkList) < MaxPushed
               /\ chunkList' = Append(chunkList,
                                      trim(sliceChars(sentence, sliceAt,
                                                      sliceAt + chunkCall.options.maxTokens * 4)))
               /\ sliceAt' = sliceAt + sliceStepOf(chunkCall.options)
               /\ UNCHANGED <<chunkPc, sentencesLeft, sentenceChunk>>
          ELSE /\ sentenceChunk' = <<>>
               /\ sentencesLeft' = Tail(sentencesLeft)
               /\ chunkPc' = "sentences"
               /\ UNCHANGED <<chunkList, sliceAt>>
    /\ UNCHANGED <<chunkCall, parasLeft, currentText>>

\* Before chunkText is called with a text and options with maxTokens >= 1
\* and overlap >= 0; the other components are at rest.
ChunkInit ==
    /\ chunkCall \in [text : Texts, options : ChunkOptions]
    /\ chunkPc = "idle"
    /\ parasLeft = <<>>
    /\ currentText = <<>>
    /\ sentencesLeft = <<>>
    /\ sentenceChunk = <<>>
    /\ sliceAt = 0
    /\ chunkList = <<>>
    /\ steps = <<>> /\ sortedSteps = <<>> /\ results = <<>> /\ pc = "idle" /\ pos = 0
    /\ aborted = FALSE /\ chatLog = <<>> /\ lastTool = NoStep /\ retryLog = <<>>
    /\ wfState = [phase |-> "idle", id |-> 0] /\ listeners = <<>> /\ delivered = <<>>
    /\ wfError = NoError /\ lastOp = NoOp /\ wfCalls = 0
    /\ lastArgs = NoArgs /\ invoked = NeverInvoked
    /\ entries = <<>> /\ currentThinking = 0 /\ currentMessage = 0 /\ toolEntry = 0
    /\ spc = "idle" /\ chunk = NoChunk /\ callsLeft = <<>> /\ fed = <<>>
    /\ dispatched = <<>> /\ chunksSeen = 0 /\ lastFault = NoFault
    /\ givenInput = NoInput /\ givenSchema = EmptyObject /\ validation = NotCalled
    /\ handlers = EmptyObject /\ toolCall = NoCall /\ toolOutcome = NotCalled
    /\ executorRuns = <<>> /\ toolOp = NoToolOp
    /\ documents = <<>> /\ dimensions = 0 /\ storeOp = NoStoreOp
    /\ searchResults = NotCalled /\ lastGiven = NothingGiven
    /\ ctxCall = NotCalled /\ vectorCount = 0 /\ cpc = "idle" /\ messages = <<>>
    /\ usedTokens = 0 /\ ragContext = <<>> /\ ragFeed = NoFeed

ChunkNext ==
    \/ chunkText /\ UNCHANGED <<execVars, wfVars, streamVars, valVars, toolVars, storeVars, ctxVars>>
    \/ nextParagraph /\ UNCHANGED <<execVars, wfVars, streamVars, valVars, toolVars, storeVars, ctxVars>>
    \/ nextSentence /\ UNCHANGED <<execVars, wfVars, streamVars, valVars, toolVars, storeVars, ctxVars>>
    \/ nextSlice /\ UNCHANGED <<execVars, wfVars, streamVars, valVars, toolVars, storeVars, ctxVars>>

SpecChunk == ChunkInit /\ [][ChunkNext]_vars

\* C40: chunkText comes to its end for every text and every options value
\* with maxTokens >= 1 and overlap >= 0, overlap >= maxTokens included: each
\* iteration of the character loop takes i nearer to the end of the sentence
\* (the other loops run over finite arrays); and every chunk it returns is
\* non-empty and has a token estimate of at most maxTokens.
C40_ChunkTextEnds ==
    /\ [](chunkPc = "returned" =>
            \A k \in DOMAIN chunkList :
                /\ chunkList[k] # <<>>
                /\ estimateTokens(chunkList[k]) <= chunkCall.options.maxTokens)
    /\ [][(chunkPc = "slicing" /\ chunkPc' = "slicing") => sliceAt' > sliceAt]_vars
====
